---------------------------- MODULE Spec2Model ----------------------------
(***************************************************************************)
(* Model of the StackStage analysis back end: the rule-based scoring       *)
(* engine (fastapi/services), the local fallback analysis (utils) and the  *)
(* fallback chain of analyze_architecture.                                 *)
(*                                                                         *)
(* A Python str is a sequence of one-character strings, so that `in`,      *)
(* lower() and the regular expressions are computed character by           *)
(* character as the interpreter computes them.                             *)
(***************************************************************************)
EXTENDS Integers, Sequences, FiniteSets, TLC

(***************************************************************************)
(* Bounds of the model.                                                    *)
(***************************************************************************)
\* number of fragments concatenated into one input text
MaxFrags == 2

(***************************************************************************)
(* Python str primitives.                                                  *)
(***************************************************************************)
\* the value None, passed where a str is expected
None == <<"None">>

LowerOf ==
  [A |-> "a", B |-> "b", C |-> "c", D |-> "d", E |-> "e", F |-> "f", G |-> "g",
   H |-> "h", I |-> "i", J |-> "j", K |-> "k", L |-> "l", M |-> "m", N |-> "n",
   O |-> "o", P |-> "p", Q |-> "q", R |-> "r", S |-> "s", T |-> "t", U |-> "u",
   V |-> "v", W |-> "w", X |-> "x", Y |-> "y", Z |-> "z"]

\* str.lower() on one character
LowerChar(c) == IF c \in DOMAIN LowerOf THEN LowerOf[c] ELSE c

\* a comparison that keeps the case of the text
case_kept(s) == s

\* str.lower()
lower(s) == SubSeq([i \in 1..Len(s) |-> LowerChar(s[i])], 1, Len(s))

\* sub occurs in s at index i (1-based)
OccursAt(sub, s, i) ==
  /\ i + Len(sub) - 1 <= Len(s)
  /\ \A k \in 1..Len(sub) : s[i + k - 1] = sub[k]

\* the Python expression `sub in s`
Contains(sub, s) == \E i \in 1..(Len(s) - Len(sub) + 1) : OccursAt(sub, s, i)

\* any(term in s for term in terms)
AnyIn(terms, s) == \E j \in 1..Len(terms) : Contains(terms[j], s)

\* concatenation of a sequence of strings
RECURSIVE Concat(_)
Concat(ss) == IF ss = <<>> THEN <<>> ELSE Head(ss) \o Concat(Tail(ss))

\* max and min of two integers
Max(a, b) == IF a >= b THEN a ELSE b
Min(a, b) == IF a <= b THEN a ELSE b

(***************************************************************************)
(* State.                                                                  *)
(***************************************************************************)
VARIABLES
  svc_pc,          \* position of the request served by the fastapi services
  architecture,    \* the architecture argument of that request (a str or None)
  scores,          \* dict returned by ScoringEngine.calculate_scores
  recommendations, \* list returned by AnalysisEngine._generate_recommendations
  components,      \* "components" of the dict returned by DiagramEngine.generate
  extracted,       \* list returned by LocalAnalysisEngine._extract_components
  local_pc,        \* position of the caller of LocalAnalysisEngine
  local_text,      \* architecture_text of the current call
  local_region,    \* user_region of the current call
  local_last,      \* the dict returned by the latest call (none: <<>>)
  local_prev,      \* the dict returned by the call before it, for the same arguments
  an_pc,           \* position of the call of utils.ai_engine.analyze_architecture
  data,            \* the request object passed to it
  openrouter,      \* the API key setting and what the steps of this call meet
  an_out,          \* how the call ended: the returned dict or the exception (none: <<>>)
  an_prev,         \* how the call before it ended, for the same request object (none: <<>>)
  llm_posts,       \* number of requests.post calls to the LLM provider made by the call
  static_pc,       \* position of the caller of StaticAnalyzer._built_in_analysis
  static_content,  \* content of the current call
  static_type,     \* iac_type of the current call
  static_out,      \* the dict returned by the call (none: <<>>)
  tasks,           \* the local variables of each concurrent call of AnalysisEngine.analyze
  analysis_cache,  \* AnalysisEngine.analysis_cache: the result stored under each analysis id
  clock,           \* datetime.now(), in seconds
  session_memory,  \* routers/assistant.py session_memory: the messages kept for each session id
  memory_log,      \* history: the messages stored for each session id since its last clear
  memory_serial,   \* history: the number of messages ever stored for each session id
  memory_reply,    \* the dict returned by the latest handler of the memory routes
  content_pc,      \* position of the caller of StaticAnalyzer.analyze_content
  content_arg,     \* content and iac_type of that call, and what its steps meet
  content_out,     \* how the call ended: the returned dict or the exception (none: <<>>)
  tmp_files        \* the temporary files of analyze_content that exist, by their content

svc_vars == <<svc_pc, architecture, scores, recommendations, components, extracted>>
local_vars == <<local_pc, local_text, local_region, local_last, local_prev>>
an_vars == <<an_pc, data, openrouter, an_out, an_prev, llm_posts>>
static_vars == <<static_pc, static_content, static_type, static_out>>
tasks_vars == <<tasks, analysis_cache, clock>>
memory_vars == <<session_memory, memory_log, memory_serial, memory_reply>>
content_vars == <<content_pc, content_arg, content_out, tmp_files>>

\* what the actions of one component leave alone
outside_svc == <<local_vars, an_vars, static_vars, tasks_vars, memory_vars, content_vars>>
outside_local == <<svc_vars, an_vars, static_vars, tasks_vars, memory_vars, content_vars>>
outside_an == <<svc_vars, local_vars, static_vars, tasks_vars, memory_vars, content_vars>>
outside_static == <<svc_vars, local_vars, an_vars, tasks_vars, memory_vars, content_vars>>
outside_tasks == <<svc_vars, local_vars, an_vars, static_vars, memory_vars, content_vars>>
outside_memory == <<svc_vars, local_vars, an_vars, static_vars, tasks_vars, content_vars>>
outside_content == <<svc_vars, local_vars, an_vars, static_vars, tasks_vars, memory_vars>>

(***************************************************************************)
(* IEEE 754 binary64 arithmetic, as far as calculate_scores uses it.       *)
(*                                                                         *)
(* A double x is the pair [n, d] with x = n/100 + d/(100 * 2^55): n is the *)
(* value in hundredths in exact arithmetic and d the accumulated rounding  *)
(* error in units of 2^-55/100.  All doubles of the computation are        *)
(* multiples of 2^-55 and below 128.                                       *)
(***************************************************************************)
RECURSIVE Pow2Mod(_, _)
\* 2^k modulo m
Pow2Mod(k, m) == IF k = 0 THEN 1 % m ELSE (2 * Pow2Mod(k - 1, m)) % m

\* x >= b for the double x = [n, d] and the integer b (in hundredths: 100 * b)
fl_ge(x, hundredths) == x.n > hundredths \/ (x.n = hundredths /\ x.d >= 0)

\* unit in the last place of x, in units of 2^-55
fl_ulp(x) ==
  IF fl_ge(x, 6400) THEN 512
  ELSE IF fl_ge(x, 3200) THEN 256
  ELSE IF fl_ge(x, 1600) THEN 128
  ELSE IF fl_ge(x, 800) THEN 64
  ELSE IF fl_ge(x, 400) THEN 32
  ELSE IF fl_ge(x, 200) THEN 16
  ELSE IF fl_ge(x, 100) THEN 8
  ELSE IF fl_ge(x, 50) THEN 4
  ELSE IF fl_ge(x, 25) THEN 2
  ELSE 1

\* round-to-nearest, ties-to-even, of the exact value x to a double
fl_round(x) ==
  IF x.n = 0 THEN [n |-> 0, d |-> 0]
  ELSE LET U  == fl_ulp(x)
           \* 100 * (m mod 2U), where m = x * 2^55 is an integer
           R2 == (x.n * Pow2Mod(55, 200 * U) + x.d) % (200 * U)
           r2 == R2 \div 100
           r  == r2 % U
       IN  IF 2 * r < U THEN [n |-> x.n, d |-> x.d - 100 * r]
           ELSE IF 2 * r > U THEN [n |-> x.n, d |-> x.d + 100 * (U - r)]
           ELSE IF r2 = r THEN [n |-> x.n, d |-> x.d - 100 * r]
           ELSE [n |-> x.n, d |-> x.d + 100 * (U - r)]

\* int * float
fl_mul(i, w) == fl_round([n |-> i * w.n, d |-> i * w.d])

\* float + float
fl_add(x, y) == fl_round([n |-> x.n + y.n, d |-> x.d + y.d])

\* int(x) for a double x >= 0: truncation
py_int(x) ==
  IF x.d < 0 /\ x.n % 100 = 0 THEN (x.n \div 100) - 1 ELSE x.n \div 100

(***************************************************************************)
(* ScoringEngine (fastapi/services/scoring.py).                            *)
(***************************************************************************)
\* the doubles nearest to 0.25, 0.20 and 0.15
scoring_weights ==
  [security    |-> [n |-> 25, d |-> 0],
   reliability |-> [n |-> 25, d |-> 0],
   scalability |-> [n |-> 20, d |-> 40],
   performance |-> [n |-> 15, d |-> -20],
   cost        |-> [n |-> 15, d |-> -20]]

\* every text counts as complex
complexity_always_high(arch) == "high"

assess_complexity(arch) ==
  LET arch_lower == lower(arch)
      comps == << <<"l","o","a","d"," ","b","a","l","a","n","c","e","r">>, <<"d","a","t","a","b","a","s","e">>, <<"c","a","c","h","e">>, <<"c","d","n">>, <<"q","u","e","u","e">>,
                  <<"l","a","m","b","d","a">>, <<"c","o","n","t","a","i","n","e","r">>, <<"m","i","c","r","o","s","e","r","v","i","c","e">>, <<"a","p","i"," ","g","a","t","e","w","a","y">> >>
      component_count == Cardinality({j \in 1..Len(comps) : Contains(comps[j], arch_lower)})
  IN  IF component_count <= 3 THEN "low"
      ELSE IF component_count <= 6 THEN "medium"
      ELSE "high"

analyze_architecture_flags(arch) ==
  LET arch_lower == lower(arch) IN
  [has_load_balancer |-> AnyIn(<< <<"l","o","a","d"," ","b","a","l","a","n","c","e","r">>, <<"a","l","b">>, <<"e","l","b">> >>, arch_lower),
   has_multi_az      |-> AnyIn(<< <<"m","u","l","t","i","-","a","z">>, <<"m","u","l","t","i","p","l","e"," ","a","v","a","i","l","a","b","i","l","i","t","y">>, <<"z","o","n","e">> >>, arch_lower),
   has_monitoring    |-> AnyIn(<< <<"m","o","n","i","t","o","r","i","n","g">>, <<"c","l","o","u","d","w","a","t","c","h">>, <<"l","o","g","g","i","n","g">> >>, arch_lower),
   has_backup        |-> AnyIn(<< <<"b","a","c","k","u","p">>, <<"s","n","a","p","s","h","o","t">>, <<"r","e","s","t","o","r","e">> >>, arch_lower),
   has_encryption    |-> AnyIn(<< <<"e","n","c","r","y","p","t","i","o","n">>, <<"s","s","l">>, <<"t","l","s">> >>, arch_lower),
   has_auto_scaling  |-> AnyIn(<< <<"a","u","t","o"," ","s","c","a","l","i","n","g">>, <<"a","u","t","o","s","c","a","l","i","n","g">>, <<"s","c","a","l","e">> >>, arch_lower),
   has_cache         |-> AnyIn(<< <<"c","a","c","h","e">>, <<"r","e","d","i","s">>, <<"m","e","m","c","a","c","h","e","d">> >>, arch_lower),
   has_cdn           |-> AnyIn(<< <<"c","d","n">>, <<"c","l","o","u","d","f","r","o","n","t">>, <<"d","i","s","t","r","i","b","u","t","i","o","n">> >>, arch_lower),
   has_iam           |-> AnyIn(<< <<"i","a","m">>, <<"r","o","l","e">>, <<"p","o","l","i","c","y">>, <<"a","c","c","e","s","s">> >>, arch_lower),
   has_vpc           |-> AnyIn(<< <<"v","p","c">>, <<"v","i","r","t","u","a","l"," ","p","r","i","v","a","t","e">>, <<"n","e","t","w","o","r","k">> >>, arch_lower),
   has_firewall      |-> AnyIn(<< <<"f","i","r","e","w","a","l","l">>, <<"s","e","c","u","r","i","t","y"," ","g","r","o","u","p">>, <<"n","a","c","l">> >>, arch_lower),
   has_database      |-> AnyIn(<< <<"d","a","t","a","b","a","s","e">>, <<"d","b">>, <<"r","d","s">>, <<"m","y","s","q","l">>, <<"p","o","s","t","g","r","e","s">> >>, arch_lower),
   has_containers    |-> AnyIn(<< <<"c","o","n","t","a","i","n","e","r">>, <<"d","o","c","k","e","r">>, <<"k","u","b","e","r","n","e","t","e","s">>, <<"e","c","s">> >>, arch_lower),
   has_serverless    |-> AnyIn(<< <<"l","a","m","b","d","a">>, <<"s","e","r","v","e","r","l","e","s","s">>, <<"f","u","n","c","t","i","o","n">> >>, arch_lower),
   complexity        |-> assess_complexity(arch)]

\* `+= pts` under `if cond`
If(cond, pts) == IF cond THEN pts ELSE 0

\* clamp without the upper limit
clamp_no_upper(base_score) == Max(base_score, 0)

\* min(max(base_score, 0), 100)
clamp(base_score) == Min(Max(base_score, 0), 100)

\* security score that charges encryption instead of crediting it
calculate_security_score_penalising(analysis, arch) ==
  LET arch_lower == lower(arch) IN
  clamp(60
        - If(analysis.has_encryption, 15)
        + If(analysis.has_iam, 10)
        + If(analysis.has_vpc, 8)
        + If(analysis.has_firewall, 7)
        - If(~analysis.has_monitoring, 10)
        - If(~analysis.has_backup, 5)
        + If(Contains(<<"w","a","f">>, arch_lower), 5)
        + If(Contains(<<"d","d","o","s">>, arch_lower), 3)
        + If(Contains(<<"p","r","i","v","a","t","e"," ","s","u","b","n","e","t">>, arch_lower), 5))

calculate_security_score(analysis, arch) ==
  LET arch_lower == lower(arch) IN
  clamp(60
        + If(analysis.has_encryption, 15)
        + If(analysis.has_iam, 10)
        + If(analysis.has_vpc, 8)
        + If(analysis.has_firewall, 7)
        - If(~analysis.has_monitoring, 10)
        - If(~analysis.has_backup, 5)
        + If(Contains(<<"w","a","f">>, arch_lower), 5)
        + If(Contains(<<"d","d","o","s">>, arch_lower), 3)
        + If(Contains(<<"p","r","i","v","a","t","e"," ","s","u","b","n","e","t">>, arch_lower), 5))

calculate_reliability_score(analysis, arch) ==
  LET arch_lower == lower(arch) IN
  clamp(65
        + If(analysis.has_multi_az, 15)
        + If(analysis.has_load_balancer, 10)
        + If(analysis.has_backup, 8)
        + If(analysis.has_monitoring, 7)
        + If(Contains(<<"f","a","i","l","o","v","e","r">>, arch_lower), 5)
        + If(Contains(<<"r","e","d","u","n","d","a","n","t">>, arch_lower), 5)
        + If(Contains(<<"d","i","s","a","s","t","e","r"," ","r","e","c","o","v","e","r","y">>, arch_lower), 5)
        - If(~analysis.has_multi_az, 15)
        - If(~analysis.has_load_balancer /\ analysis.has_database, 10))

calculate_scalability_score(analysis, arch) ==
  LET arch_lower == lower(arch) IN
  clamp(70
        + If(analysis.has_auto_scaling, 15)
        + If(analysis.has_load_balancer, 10)
        + If(analysis.has_cache, 8)
        + If(analysis.has_cdn, 7)
        + If(analysis.has_containers, 8)
        + If(analysis.has_serverless, 5)
        + If(Contains(<<"m","i","c","r","o","s","e","r","v","i","c","e","s">>, arch_lower), 10)
        + If(Contains(<<"h","o","r","i","z","o","n","t","a","l"," ","s","c","a","l","i","n","g">>, arch_lower), 5)
        + If(Contains(<<"q","u","e","u","e">>, arch_lower) \/ Contains(<<"s","q","s">>, arch_lower), 5)
        - If(analysis.complexity = "high", 5))

calculate_performance_score(analysis, arch) ==
  LET arch_lower == lower(arch) IN
  clamp(70
        + If(analysis.has_cache, 12)
        + If(analysis.has_cdn, 10)
        + If(analysis.has_load_balancer, 8)
        + If(Contains(<<"r","e","a","d"," ","r","e","p","l","i","c","a">>, arch_lower), 8)
        + If(Contains(<<"c","o","n","n","e","c","t","i","o","n"," ","p","o","o","l","i","n","g">>, arch_lower), 5)
        + If(Contains(<<"c","o","m","p","r","e","s","s","i","o","n">>, arch_lower), 3)
        + If(Contains(<<"o","p","t","i","m","i","z","a","t","i","o","n">>, arch_lower), 5)
        + If(analysis.has_containers, 5)
        + If(analysis.has_serverless, 3)
        - If(~analysis.has_cache /\ analysis.has_database, 8)
        - If(~analysis.has_cdn /\ Contains(<<"w","e","b">>, arch_lower), 5))

calculate_cost_score(analysis, arch) ==
  LET arch_lower == lower(arch) IN
  clamp(70
        + If(analysis.has_auto_scaling, 12)
        + If(analysis.has_serverless, 10)
        + If(analysis.has_cache, 5)
        + If(Contains(<<"s","p","o","t"," ","i","n","s","t","a","n","c","e">>, arch_lower), 8)
        + If(Contains(<<"r","e","s","e","r","v","e","d"," ","i","n","s","t","a","n","c","e">>, arch_lower), 6)
        + If(Contains(<<"l","i","f","e","c","y","c","l","e"," ","p","o","l","i","c","y">>, arch_lower), 5)
        + If(Contains(<<"c","o","s","t"," ","m","o","n","i","t","o","r","i","n","g">>, arch_lower), 5)
        - If(analysis.complexity = "high", 8)
        - If(analysis.has_multi_az /\ Contains(<<"d","a","t","a","b","a","s","e">>, arch_lower), 3)
        - If(Contains(<<"l","a","r","g","e">>, arch_lower) /\ Contains(<<"i","n","s","t","a","n","c","e">>, arch_lower), 5))

\* int(security * w + reliability * w + ... ), evaluated left to right in doubles
weighted_overall(sec, rel, sca, per, cos) ==
  py_int(fl_add(fl_add(fl_add(fl_add(fl_mul(sec, scoring_weights.security),
                                     fl_mul(rel, scoring_weights.reliability)),
                              fl_mul(sca, scoring_weights.scalability)),
                       fl_mul(per, scoring_weights.performance)),
                fl_mul(cos, scoring_weights.cost)))

\* a default that repeats one value in every field
uniform_default_scores ==
  [overall |-> 70, security |-> 70, reliability |-> 70, scalability |-> 70,
   performance |-> 70, cost |-> 70]

get_default_scores ==
  [overall |-> 75, security |-> 70, reliability |-> 75, scalability |-> 80,
   performance |-> 75, cost |-> 70]

\* the try block of calculate_scores raises: None has no lower()
scoring_raises(arch) == arch = None

calculate_scores(arch) ==
  IF scoring_raises(arch) THEN get_default_scores
  ELSE LET analysis == analyze_architecture_flags(arch)
           security_score    == calculate_security_score(analysis, arch)
           reliability_score == calculate_reliability_score(analysis, arch)
           scalability_score == calculate_scalability_score(analysis, arch)
           performance_score == calculate_performance_score(analysis, arch)
           cost_score        == calculate_cost_score(analysis, arch)
       IN  [overall     |-> weighted_overall(security_score, reliability_score,
                                             scalability_score, performance_score, cost_score),
            security    |-> security_score,
            reliability |-> reliability_score,
            scalability |-> scalability_score,
            performance |-> performance_score,
            cost        |-> cost_score]

(***************************************************************************)
(* DiagramEngine (fastapi/services/diagram_engine.py).                     *)
(***************************************************************************)
\* component_patterns, in the insertion order the loop iterates it
component_patterns ==
  << [type |-> "load_balancer", patterns |-> << <<"l","o","a","d"," ","b","a","l","a","n","c","e","r">>, <<"a","l","b">>, <<"e","l","b">>, <<"n","g","i","n","x">>, <<"h","a","p","r","o","x","y">> >>],
     [type |-> "web_server",    patterns |-> << <<"w","e","b"," ","s","e","r","v","e","r">>, <<"a","p","a","c","h","e">>, <<"n","g","i","n","x">>, <<"i","i","s">>, <<"e","c","2">> >>],
     [type |-> "app_server",    patterns |-> << <<"a","p","p","l","i","c","a","t","i","o","n"," ","s","e","r","v","e","r">>, <<"a","p","p"," ","s","e","r","v","e","r">>, <<"t","o","m","c","a","t">>, <<"e","x","p","r","e","s","s">> >>],
     [type |-> "database",      patterns |-> << <<"d","a","t","a","b","a","s","e">>, <<"d","b">>, <<"r","d","s">>, <<"m","y","s","q","l">>, <<"p","o","s","t","g","r","e","s","q","l">>, <<"m","o","n","g","o","d","b">> >>],
     [type |-> "cache",         patterns |-> << <<"c","a","c","h","e">>, <<"r","e","d","i","s">>, <<"m","e","m","c","a","c","h","e","d">>, <<"e","l","a","s","t","i","c","a","c","h","e">> >>],
     [type |-> "queue",         patterns |-> << <<"q","u","e","u","e">>, <<"s","q","s">>, <<"r","a","b","b","i","t","m","q">>, <<"k","a","f","k","a">> >>],
     [type |-> "storage",       patterns |-> << <<"s","t","o","r","a","g","e">>, <<"s","3">>, <<"b","u","c","k","e","t">>, <<"b","l","o","b">>, <<"f","i","l","e">> >>],
     [type |-> "cdn",           patterns |-> << <<"c","d","n">>, <<"c","l","o","u","d","f","r","o","n","t">>, <<"d","i","s","t","r","i","b","u","t","i","o","n">> >>],
     [type |-> "api_gateway",   patterns |-> << <<"a","p","i"," ","g","a","t","e","w","a","y">>, <<"a","p","i">>, <<"g","a","t","e","w","a","y">> >>],
     [type |-> "lambda",        patterns |-> << <<"l","a","m","b","d","a">>, <<"f","u","n","c","t","i","o","n">>, <<"s","e","r","v","e","r","l","e","s","s">> >>],
     [type |-> "container",     patterns |-> << <<"c","o","n","t","a","i","n","e","r">>, <<"d","o","c","k","e","r">>, <<"e","c","s">>, <<"k","u","b","e","r","n","e","t","e","s">>, <<"k","8","s">> >>],
     [type |-> "monitoring",    patterns |-> << <<"m","o","n","i","t","o","r","i","n","g">>, <<"c","l","o","u","d","w","a","t","c","h">>, <<"d","a","t","a","d","o","g">>, <<"n","e","w","r","e","l","i","c">> >>] >>

assess_component_risk(component_type) ==
  IF component_type \in {"database", "storage", "api_gateway"} THEN "high"
  ELSE IF component_type \in {"web_server", "app_server", "cache"} THEN "medium"
  ELSE "low"

\* the inner loop without its break: one component per matching pattern
components_of_kind_no_break(kind, content_lower) ==
  LET hits == SelectSeq(kind.patterns, LAMBDA p : Contains(p, content_lower))
  IN  [i \in 1..Len(hits) |->
         [type |-> kind.type, risk_level |-> assess_component_risk(kind.type)]]

\* the inner loop over one kind's patterns: append on the first hit, then break
components_of_kind(kind, content_lower) ==
  LET hits == SelectSeq(kind.patterns, LAMBDA p : Contains(p, content_lower))
  IN  IF hits = <<>> THEN <<>>
      ELSE << [type |-> kind.type, risk_level |-> assess_component_risk(kind.type)] >>

\* the generic components used when nothing was found
generic_components ==
  << [type |-> "users",    risk_level |-> "low"],
     [type |-> "web_app",  risk_level |-> "medium"],
     [type |-> "database", risk_level |-> "high"] >>

\* parsing without the generic components
parse_architecture_components_no_generic(content) ==
  LET content_lower == lower(content)
  IN  Concat([k \in 1..Len(component_patterns) |->
                components_of_kind(component_patterns[k], content_lower)])

parse_architecture_components(content) ==
  LET content_lower == lower(content)
      found == Concat([k \in 1..Len(component_patterns) |->
                         components_of_kind(component_patterns[k], content_lower)])
  IN  IF found = <<>> THEN generic_components ELSE found

\* "components" of _generate_fallback_diagram
fallback_diagram_components == << [type |-> "infrastructure", risk_level |-> "medium"] >>

\* "components" of the dict returned by generate: parsing None raises and
\* the except branch answers with the fallback diagram
DiagramEngine_generate(content) ==
  IF content = None THEN fallback_diagram_components
  ELSE parse_architecture_components(content)

(***************************************************************************)
(* LocalAnalysisEngine._extract_components (utils/local_fallback.py).      *)
(***************************************************************************)
local_component_patterns ==
  << [type |-> "load_balancer", patterns |-> << <<"l","o","a","d"," ","b","a","l","a","n","c","e","r">>, <<"a","l","b">>, <<"e","l","b">>, <<"n","l","b">> >>],
     [type |-> "compute",       patterns |-> << <<"e","c","2">>, <<"i","n","s","t","a","n","c","e">>, <<"s","e","r","v","e","r">>, <<"c","o","m","p","u","t","e">>, <<"v","m">> >>],
     [type |-> "database",      patterns |-> << <<"r","d","s">>, <<"d","a","t","a","b","a","s","e">>, <<"d","b">>, <<"m","y","s","q","l">>, <<"p","o","s","t","g","r","e","s">> >>],
     [type |-> "storage",       patterns |-> << <<"s","3">>, <<"s","t","o","r","a","g","e">>, <<"b","u","c","k","e","t">>, <<"e","f","s">>, <<"e","b","s">> >>],
     [type |-> "cache",         patterns |-> << <<"r","e","d","i","s">>, <<"e","l","a","s","t","i","c","a","c","h","e">>, <<"m","e","m","c","a","c","h","e","d">> >>],
     [type |-> "cdn",           patterns |-> << <<"c","l","o","u","d","f","r","o","n","t">>, <<"c","d","n">> >>],
     [type |-> "security",      patterns |-> << <<"w","a","f">>, <<"s","e","c","u","r","i","t","y"," ","g","r","o","u","p">>, <<"n","a","c","l">> >>],
     [type |-> "monitoring",    patterns |-> << <<"c","l","o","u","d","w","a","t","c","h">>, <<"m","o","n","i","t","o","r","i","n","g">>, <<"l","o","g","g","i","n","g">> >>] >>

extract_components(architecture_text) ==
  LET text_lower == lower(architecture_text)
      hit == SelectSeq(local_component_patterns, LAMBDA k : AnyIn(k.patterns, text_lower))
  IN  [i \in 1..Len(hit) |-> hit[i].type]

(***************************************************************************)
(* AnalysisEngine._generate_recommendations (analysis_engine.py).          *)
(***************************************************************************)
rec_security    == "Implement comprehensive security policies and access controls"
rec_reliability == "Add redundancy and failover mechanisms"
rec_cost        == "Optimize resource allocation and implement cost monitoring"
rec_performance == "Review performance bottlenecks and scaling strategies"

default_recommendations ==
  << "Implement infrastructure as code for consistency and version control",
     "Add comprehensive monitoring and alerting for all critical components",
     "Establish automated backup and disaster recovery procedures" >>

\* the list returned whole
all_recommendations(recs) == recs

\* the list cut after five entries
top_five_recommendations(recs) == SubSeq(recs, 1, IF Len(recs) < 5 THEN Len(recs) ELSE 5)

\* recommendations[:6]
top_recommendations(recs) == SubSeq(recs, 1, Min(6, Len(recs)))

\* the comparison with <= in place of <
at_or_below_threshold(score) == score <= 75

\* `if scores.get(category, 70) < 75`
below_threshold(score) == score < 75

AnalysisEngine_generate_recommendations(ss) ==
  top_recommendations(
       (IF below_threshold(ss.security)    THEN << rec_security >>    ELSE <<>>)
    \o (IF below_threshold(ss.reliability) THEN << rec_reliability >> ELSE <<>>)
    \o (IF below_threshold(ss.cost)        THEN << rec_cost >>        ELSE <<>>)
    \o (IF below_threshold(ss.performance) THEN << rec_performance >> ELSE <<>>)
    \o default_recommendations)

(***************************************************************************)
(* Requests to the fastapi services.                                       *)
(***************************************************************************)
\* fragments the architecture texts are built from
ScoreFragments ==
  << <<"E","C","2"," ","w","e","b"," ","s","e","r","v","e","r",","," ","M","y","S","Q","L"," ","R","D","S"," ","d","a","t","a","b","a","s","e">>,
     <<"M","u","l","t","i","-","A","Z",","," ","l","o","a","d"," ","b","a","l","a","n","c","e","r",","," ","f","a","i","l","o","v","e","r",","," ","b","a","c","k","u","p">>,
     <<"T","L","S",","," ","I","A","M"," ","r","o","l","e",","," ","V","P","C",","," ","f","i","r","e","w","a","l","l",","," ","W","A","F",","," ","D","D","o","S">>,
     <<"C","l","o","u","d","W","a","t","c","h"," ","m","o","n","i","t","o","r","i","n","g",","," ","b","a","c","k","u","p">>,
     <<"c","d","n",","," ","c","o","m","p","r","e","s","s","i","o","n",","," ","r","e","s","e","r","v","e","d"," ","i","n","s","t","a","n","c","e">>,
     <<"e","n","c","r","y","p","t","i","o","n">>,
     <<"l","o","a","d"," ","b","a","l","a","n","c","e","r",","," ","d","a","t","a","b","a","s","e",","," ","c","a","c","h","e",","," ","c","d","n">>,
     <<"q","u","e","u","e",","," ","L","a","m","b","d","a",","," ","c","o","n","t","a","i","n","e","r",","," ","m","i","c","r","o","s","e","r","v","i","c","e","s",","," ","A","P","I"," ","g","a","t","e","w","a","y">>,
     <<"a","u","t","o"," ","s","c","a","l","i","n","g",","," ","R","e","d","i","s",","," ","r","e","a","d"," ","r","e","p","l","i","c","a">>,
     <<"l","a","r","g","e"," ","i","n","s","t","a","n","c","e">>,
     <<" ">>,
     <<"s","p","o","t"," ","i","n","s","t","a","n","c","e",","," ","l","i","f","e","c","y","c","l","e"," ","p","o","l","i","c","y",","," ","c","o","s","t"," ","m","o","n","i","t","o","r","i","n","g">> >>

\* sequences of at most MaxFrags fragment indexes
FragSeqs(frags) == UNION { [1..n -> 1..Len(frags)] : n \in 0..MaxFrags }

\* the text spelled by a sequence of fragment indexes
TextOf(frags, fs) == Concat([i \in 1..Len(fs) |-> frags[fs[i]]])

\* the components _assess_complexity counts
ComplexityComponents ==
  << <<"l","o","a","d"," ","b","a","l","a","n","c","e","r">>, <<"d","a","t","a","b","a","s","e">>, <<"c","a","c","h","e">>, <<"c","d","n">>, <<"q","u","e","u","e">>,
     <<"l","a","m","b","d","a">>, <<"c","o","n","t","a","i","n","e","r">>, <<"m","i","c","r","o","s","e","r","v","i","c","e">>, <<"a","p","i"," ","g","a","t","e","w","a","y">> >>

\* the terms of the penalties of the performance and cost scores
PenaltyTails == {<<>>, <<"w","e","b",","," ","z","o","n","e",","," ","l","a","r","g","e"," ","i","n","s","t","a","n","c","e">>}

\* the text that names the components of the set, one after the other
ComponentsText(named) ==
  Concat([i \in 1..Len(ComplexityComponents) |->
            IF i \in named THEN ComplexityComponents[i] \o <<","," ">> ELSE <<>>])

\* the sets of components whose text is of high complexity
NamedComponents ==
  {named \in SUBSET (1..Len(ComplexityComponents)) :
     assess_complexity(ComponentsText(named)) = "high"}

\* sub-score values a ScoreSet handed to _generate_recommendations is built from
SubScoreSamples == {0, 74, 75, 100}

SvcInit ==
  /\ svc_pc = "idle"
  /\ architecture = <<>>
  /\ scores = <<>>
  /\ recommendations = <<>>
  /\ components = <<>>
  /\ extracted = <<>>

\* a request arrives with a text
SubmitText(fs) ==
  /\ UNCHANGED outside_svc
  /\ svc_pc = "idle"
  /\ svc_pc' = "request"
  /\ architecture' = TextOf(ScoreFragments, fs)
  /\ UNCHANGED <<scores, recommendations, components, extracted>>

\* a request arrives with a text that names most of the components
\* _assess_complexity counts, followed or not by the terms of the penalties
SubmitComponents(named, tail) ==
  /\ UNCHANGED outside_svc
  /\ svc_pc = "idle"
  /\ svc_pc' = "request"
  /\ architecture' = ComponentsText(named) \o tail
  /\ UNCHANGED <<scores, recommendations, components, extracted>>

\* a request arrives with None in place of the text
SubmitNone ==
  /\ UNCHANGED outside_svc
  /\ svc_pc = "idle"
  /\ svc_pc' = "request"
  /\ architecture' = None
  /\ UNCHANGED <<scores, recommendations, components, extracted>>

\* ScoringEngine.calculate_scores
CalculateScores ==
  /\ UNCHANGED outside_svc
  /\ svc_pc = "request"
  /\ scores' = << calculate_scores(architecture) >>
  /\ svc_pc' = "scored"
  /\ UNCHANGED <<architecture, recommendations, components, extracted>>

\* _generate_recommendations is handed a ScoreSet by its caller
GivenScoreSet(sec, rel, sca, per, cos) ==
  /\ UNCHANGED outside_svc
  /\ svc_pc = "idle"
  /\ scores' = << [overall |-> weighted_overall(sec, rel, sca, per, cos),
                   security |-> sec, reliability |-> rel, scalability |-> sca,
                   performance |-> per, cost |-> cos] >>
  /\ svc_pc' = "given"
  /\ UNCHANGED <<architecture, recommendations, components, extracted>>

\* AnalysisEngine._generate_recommendations
GenerateRecommendations ==
  /\ UNCHANGED outside_svc
  /\ svc_pc \in {"scored", "given"}
  /\ recommendations' = AnalysisEngine_generate_recommendations(scores[1])
  /\ svc_pc' = "recommended"
  /\ UNCHANGED <<architecture, scores, components, extracted>>

\* DiagramEngine.generate
GenerateDiagram ==
  /\ UNCHANGED outside_svc
  /\ svc_pc = "request"
  /\ components' = DiagramEngine_generate(architecture)
  /\ svc_pc' = "diagrammed"
  /\ UNCHANGED <<architecture, scores, recommendations, extracted>>

\* LocalAnalysisEngine._extract_components on a text
ExtractComponents ==
  /\ UNCHANGED outside_svc
  /\ svc_pc = "request"
  /\ architecture # None
  /\ extracted' = extract_components(architecture)
  /\ svc_pc' = "extracted"
  /\ UNCHANGED <<architecture, scores, recommendations, components>>

\* the response is sent; the next request starts from scratch
Respond ==
  /\ UNCHANGED outside_svc
  /\ svc_pc \in {"recommended", "diagrammed", "extracted"}
  /\ svc_pc' = "idle"
  /\ architecture' = <<>>
  /\ scores' = <<>>
  /\ recommendations' = <<>>
  /\ components' = <<>>
  /\ extracted' = <<>>

SvcNext ==
  \/ \E fs \in FragSeqs(ScoreFragments) : SubmitText(fs)
  \/ \E named \in NamedComponents, tail \in PenaltyTails : SubmitComponents(named, tail)
  \/ SubmitNone
  \/ CalculateScores
  \/ \E sec \in SubScoreSamples, rel \in SubScoreSamples, sca \in SubScoreSamples,
        per \in SubScoreSamples, cos \in SubScoreSamples :
        GivenScoreSet(sec, rel, sca, per, cos)
  \/ GenerateRecommendations
  \/ GenerateDiagram
  \/ ExtractComponents
  \/ Respond

(***************************************************************************)
(* Python re: a backtracking matcher for the constructs the rule catalog   *)
(* uses.  A pattern is a sequence of nodes; a node is a literal, a greedy  *)
(* repetition of a character class, an alternation or a negative lookahead.*)
(* The patterns are compiled with re.IGNORECASE (or searched in lowered    *)
(* text), so the matcher runs on the lowered text with lowered patterns.   *)
(***************************************************************************)
Lit(s) == [k |-> "lit", s |-> s]
Rep(cls, min, max) == [k |-> "rep", cls |-> cls, min |-> min, max |-> max]
Alt(alts) == [k |-> "alt", alts |-> alts]
NotAhead(body) == [k |-> "nla", body |-> body]

\* character classes
Class(chars) == [neg |-> FALSE, chars |-> chars]
NotClass(chars) == [neg |-> TRUE, chars |-> chars]
InClass(c, cls) == (c \in cls.chars) # cls.neg

Digits == {"0", "1", "2", "3", "4", "5", "6", "7", "8", "9"}
Letters == {LowerOf[u] : u \in DOMAIN LowerOf}
\* .   (no DOTALL: any character but the newline)
Dot == NotClass({"\n"})
\* \s
Space == Class({" ", "\t", "\n", "\r", "\f"})
\* ["\']  and  [^"\']
Quote == Class({"\"", "'"})
NotQuote == NotClass({"\"", "'"})

One(cls) == Rep(cls, 1, 1)
Opt(cls) == Rep(cls, 0, 1)
Star(cls) == Rep(cls, 0, -1)
AtLeast(cls, n) == Rep(cls, n, -1)

RECURSIVE FirstNotIn(_, _, _, _)
\* least index in lo..hi whose character is not in cls, hi + 1 if there is none
\* (the scan is split in halves to keep the recursion shallow)
FirstNotIn(cls, t, lo, hi) ==
  IF lo > hi THEN hi + 1
  ELSE IF lo = hi THEN (IF InClass(t[lo], cls) THEN hi + 1 ELSE lo)
  ELSE LET mid == (lo + hi) \div 2
           l == FirstNotIn(cls, t, lo, mid)
       IN  IF l <= mid THEN l ELSE FirstNotIn(cls, t, mid + 1, hi)

\* number of characters from index i on that are in cls, at most max (-1: no limit)
RunLen(cls, t, i, max) ==
  FirstNotIn(cls, t, i, IF max = -1 THEN Len(t) ELSE Min(Len(t), i + max - 1)) - i

RECURSIVE MatchAt(_, _, _), TryRep(_, _, _, _, _), TryAlt(_, _, _, _, _)
\* index after the first match (in backtracking order) of pat at index i of t, 0 if none
MatchAt(pat, t, i) ==
  IF pat = <<>> THEN i
  ELSE LET h == Head(pat)
           rest == Tail(pat)
       IN  CASE h.k = "lit" -> IF OccursAt(h.s, t, i) THEN MatchAt(rest, t, i + Len(h.s)) ELSE 0
             [] h.k = "rep" -> TryRep(rest, t, i, h.min, RunLen(h.cls, t, i, h.max))
             [] h.k = "alt" -> TryAlt(h.alts, rest, t, i, 1)
             [] h.k = "nla" -> IF MatchAt(h.body, t, i) = 0 THEN MatchAt(rest, t, i) ELSE 0

\* greedy repetition: the rest is tried after the longest run first, then after
\* one character less, down to the shortest; here for the run lengths lo..hi
TryRep(rest, t, i, lo, hi) ==
  IF lo > hi THEN 0
  ELSE IF lo = hi THEN MatchAt(rest, t, i + lo)
  ELSE LET mid == (lo + hi) \div 2
           r == TryRep(rest, t, i, mid + 1, hi)
       IN  IF r # 0 THEN r ELSE TryRep(rest, t, i, lo, mid)

\* alternation: the alternatives in order, each followed by the rest
TryAlt(alts, rest, t, i, j) ==
  IF j > Len(alts) THEN 0
  ELSE LET r == MatchAt(alts[j] \o rest, t, i)
       IN  IF r # 0 THEN r ELSE TryAlt(alts, rest, t, i, j + 1)

RECURSIVE FirstMatch(_, _, _, _)
\* the leftmost match starting in lo..hi as <<start, end>> (end exclusive),
\* <<0, 0>> if there is none
FirstMatch(pat, t, lo, hi) ==
  IF lo > hi THEN <<0, 0>>
  ELSE IF lo = hi THEN (LET e == MatchAt(pat, t, lo) IN IF e = 0 THEN <<0, 0>> ELSE <<lo, e>>)
  ELSE LET mid == (lo + hi) \div 2
           l == FirstMatch(pat, t, lo, mid)
       IN  IF l[1] # 0 THEN l ELSE FirstMatch(pat, t, mid + 1, hi)

RECURSIVE FindAllFrom(_, _, _)
\* the non-overlapping matches from index i on, leftmost first; no pattern of
\* the catalog matches the empty string
FindAllFrom(pat, t, i) ==
  LET m == FirstMatch(pat, t, i, Len(t))
  IN  IF m[1] = 0 THEN <<>> ELSE << m >> \o FindAllFrom(pat, t, m[2])

\* re.findall(pattern, text, re.IGNORECASE | re.MULTILINE)
findall(pat, text) == FindAllFrom(pat, lower(text), 1)

\* re.search(pattern, text) is not None
search(pat, t) == FirstMatch(pat, t, 1, Len(t))[1] # 0

(***************************************************************************)
(* LocalAnalysisEngine (utils/local_fallback.py).                          *)
(***************************************************************************)
\* \s*[=:]\s*  and  \s*=\s*
Assign == << Star(Space), One(Class({"=", ":"})), Star(Space) >>
Equals == << Star(Space), Lit(<<"=">>), Star(Space) >>
Dash == One(Class({"-", "_"}))
OptDash == Opt(Class({"-", "_"}))

\* self.rule_patterns, flattened in iteration order: one entry per pattern
rule_patterns ==
  << [category |-> "security", rule |-> "hardcoded_secrets", severity |-> "critical",
      source |-> <<"p","a","s","s","w","o","r","d","\\","s","*","[","=",":","]","\\","s","*","[","\"","\\","'","]","[","^","\"","\\","'","]","{","8",",","}","[","\"","\\","'","]">>,
      re |-> << Lit(<<"p","a","s","s","w","o","r","d">>) >> \o Assign \o << One(Quote), AtLeast(NotQuote, 8), One(Quote) >>],
     [category |-> "security", rule |-> "hardcoded_secrets", severity |-> "critical",
      source |-> <<"a","p","i","[","_","-","]","?","k","e","y","\\","s","*","[","=",":","]","\\","s","*","[","\"","\\","'","]","[","A","-","Z","a","-","z","0","-","9","]","{","2","0",",","}","[","\"","\\","'","]">>,
      re |-> << Lit(<<"a","p","i">>), OptDash, Lit(<<"k","e","y">>) >> \o Assign
             \o << One(Quote), AtLeast(Class(Letters \cup Digits), 20), One(Quote) >>],
     [category |-> "security", rule |-> "hardcoded_secrets", severity |-> "critical",
      source |-> <<"s","e","c","r","e","t","[","_","-","]","?","k","e","y","\\","s","*","[","=",":","]","\\","s","*","[","\"","\\","'","]","[","^","\"","\\","'","]","{","1","6",",","}","[","\"","\\","'","]">>,
      re |-> << Lit(<<"s","e","c","r","e","t">>), OptDash, Lit(<<"k","e","y">>) >> \o Assign
             \o << One(Quote), AtLeast(NotQuote, 16), One(Quote) >>],
     [category |-> "security", rule |-> "hardcoded_secrets", severity |-> "critical",
      source |-> <<"a","c","c","e","s","s","[","_","-","]","?","t","o","k","e","n","\\","s","*","[","=",":","]","\\","s","*","[","\"","\\","'","]","[","A","-","Z","a","-","z","0","-","9","+","/","=","]","{","2","0",",","}","[","\"","\\","'","]">>,
      re |-> << Lit(<<"a","c","c","e","s","s">>), OptDash, Lit(<<"t","o","k","e","n">>) >> \o Assign
             \o << One(Quote), AtLeast(Class(Letters \cup Digits \cup {"+", "/", "="}), 20), One(Quote) >>],
     [category |-> "security", rule |-> "public_access", severity |-> "high",
      source |-> <<"p","u","b","l","i","c","[","-","_","]","r","e","a","d","[","-","_","]","w","r","i","t","e">>,
      re |-> << Lit(<<"p","u","b","l","i","c">>), Dash, Lit(<<"r","e","a","d">>), Dash, Lit(<<"w","r","i","t","e">>) >>],
     [category |-> "security", rule |-> "public_access", severity |-> "high",
      source |-> <<"0","\\",".","0","\\",".","0","\\",".","0","/","0">>,
      re |-> << Lit(<<"0",".","0",".","0",".","0","/","0">>) >>],
     [category |-> "security", rule |-> "public_access", severity |-> "high",
      source |-> <<"p","u","b","l","i","c","l","y","[","-","_","]","a","c","c","e","s","s","i","b","l","e","\\","s","*","=","\\","s","*","t","r","u","e">>,
      re |-> << Lit(<<"p","u","b","l","i","c","l","y">>), Dash, Lit(<<"a","c","c","e","s","s","i","b","l","e">>) >> \o Equals \o << Lit(<<"t","r","u","e">>) >>],
     [category |-> "security", rule |-> "public_access", severity |-> "high",
      source |-> <<"\\","*",":","\\","*","@","\\","*">>,
      re |-> << Lit(<<"*",":","*","@","*">>) >>],
     [category |-> "security", rule |-> "encryption_disabled", severity |-> "medium",
      source |-> <<"e","n","c","r","y","p","t","e","d","\\","s","*","=","\\","s","*","f","a","l","s","e">>,
      re |-> << Lit(<<"e","n","c","r","y","p","t","e","d">>) >> \o Equals \o << Lit(<<"f","a","l","s","e">>) >>],
     [category |-> "security", rule |-> "encryption_disabled", severity |-> "medium",
      source |-> <<"e","n","c","r","y","p","t","i","o","n","\\","s","*","=","\\","s","*","[","\"","\\","'","]","?","n","o","n","e","[","\"","\\","'","]","?">>,
      re |-> << Lit(<<"e","n","c","r","y","p","t","i","o","n">>) >> \o Equals \o << Opt(Quote), Lit(<<"n","o","n","e">>), Opt(Quote) >>],
     [category |-> "security", rule |-> "encryption_disabled", severity |-> "medium",
      source |-> <<"s","s","l","\\","s","*","=","\\","s","*","f","a","l","s","e">>,
      re |-> << Lit(<<"s","s","l">>) >> \o Equals \o << Lit(<<"f","a","l","s","e">>) >>],
     [category |-> "security", rule |-> "encryption_disabled", severity |-> "medium",
      source |-> <<"t","l","s","\\","s","*","=","\\","s","*","f","a","l","s","e">>,
      re |-> << Lit(<<"t","l","s">>) >> \o Equals \o << Lit(<<"f","a","l","s","e">>) >>],
     [category |-> "cost", rule |-> "oversized_instances", severity |-> "medium",
      source |-> <<"i","n","s","t","a","n","c","e","_","t","y","p","e","\\","s","*","=","\\","s","*","[","\"","\\","'","]","?","[","a","-","z","0","-","9","]","*","\\",".","(","[","2","-","9","]","|","1","[","0","-","9","]","|","2","[","0","-","9","]",")","x","l","a","r","g","e">>,
      re |-> << Lit(<<"i","n","s","t","a","n","c","e","_","t","y","p","e">>) >> \o Equals
             \o << Opt(Quote), Star(Class(Letters \cup Digits)), Lit(<<".">>),
                   Alt(<< << One(Class({"2", "3", "4", "5", "6", "7", "8", "9"})) >>,
                          << Lit(<<"1">>), One(Class(Digits)) >>,
                          << Lit(<<"2">>), One(Class(Digits)) >> >>),
                   Lit(<<"x","l","a","r","g","e">>) >>],
     [category |-> "cost", rule |-> "oversized_instances", severity |-> "medium",
      source |-> <<"m","a","c","h","i","n","e","_","t","y","p","e","\\","s","*","=","\\","s","*","[","\"","\\","'","]","?","n","1","-","s","t","a","n","d","a","r","d","-","(","[","8","-","9","]","|","[","1","-","9","]","[","0","-","9","]",")">>,
      re |-> << Lit(<<"m","a","c","h","i","n","e","_","t","y","p","e">>) >> \o Equals
             \o << Opt(Quote), Lit(<<"n","1","-","s","t","a","n","d","a","r","d","-">>),
                   Alt(<< << One(Class({"8", "9"})) >>,
                          << One(Class(Digits \ {"0"})), One(Class(Digits)) >> >>) >>],
     [category |-> "cost", rule |-> "oversized_instances", severity |-> "medium",
      source |-> <<"v","m","_","s","i","z","e","\\","s","*","=","\\","s","*","[","\"","\\","'","]","?","S","t","a","n","d","a","r","d","_","D","(","[","8","-","9","]","|","[","1","-","9","]","[","0","-","9","]",")">>,
      re |-> << Lit(<<"v","m","_","s","i","z","e">>) >> \o Equals
             \o << Opt(Quote), Lit(<<"s","t","a","n","d","a","r","d","_","d">>),
                   Alt(<< << One(Class({"8", "9"})) >>,
                          << One(Class(Digits \ {"0"})), One(Class(Digits)) >> >>) >>],
     [category |-> "cost", rule |-> "no_reserved_instances", severity |-> "low",
      source |-> <<"(","?","!",".","*","r","e","s","e","r","v","e","d",")",".","*","i","n","s","t","a","n","c","e","_","t","y","p","e">>,
      re |-> << NotAhead(<< Star(Dot), Lit(<<"r","e","s","e","r","v","e","d">>) >>), Star(Dot), Lit(<<"i","n","s","t","a","n","c","e","_","t","y","p","e">>) >>],
     [category |-> "reliability", rule |-> "single_az", severity |-> "high",
      source |-> <<"a","v","a","i","l","a","b","i","l","i","t","y","_","z","o","n","e","\\","s","*","=","\\","s","*","[","\"","\\","'","]","[","^","\"","\\","'","]","*","[","\"","\\","'","]","(","?","!",".","*","a","v","a","i","l","a","b","i","l","i","t","y","_","z","o","n","e",")">>,
      re |-> << Lit(<<"a","v","a","i","l","a","b","i","l","i","t","y","_","z","o","n","e">>) >> \o Equals
             \o << One(Quote), Star(NotQuote), One(Quote),
                   NotAhead(<< Star(Dot), Lit(<<"a","v","a","i","l","a","b","i","l","i","t","y","_","z","o","n","e">>) >>) >>],
     [category |-> "reliability", rule |-> "single_az", severity |-> "high",
      source |-> <<"(","?","!",".","*","m","u","l","t","i","_","a","z",")",".","*","a","w","s","_","d","b","_","i","n","s","t","a","n","c","e">>,
      re |-> << NotAhead(<< Star(Dot), Lit(<<"m","u","l","t","i","_","a","z">>) >>), Star(Dot), Lit(<<"a","w","s","_","d","b","_","i","n","s","t","a","n","c","e">>) >>],
     [category |-> "reliability", rule |-> "no_backups", severity |-> "high",
      source |-> <<"b","a","c","k","u","p","_","r","e","t","e","n","t","i","o","n","_","p","e","r","i","o","d","\\","s","*","=","\\","s","*","0">>,
      re |-> << Lit(<<"b","a","c","k","u","p","_","r","e","t","e","n","t","i","o","n","_","p","e","r","i","o","d">>) >> \o Equals \o << Lit(<<"0">>) >>],
     [category |-> "reliability", rule |-> "no_backups", severity |-> "high",
      source |-> <<"b","a","c","k","u","p","\\","s","*","=","\\","s","*","f","a","l","s","e">>,
      re |-> << Lit(<<"b","a","c","k","u","p">>) >> \o Equals \o << Lit(<<"f","a","l","s","e">>) >>],
     [category |-> "reliability", rule |-> "no_backups", severity |-> "high",
      source |-> <<"(","?","!",".","*","b","a","c","k","u","p",")",".","*","d","a","t","a","b","a","s","e">>,
      re |-> << NotAhead(<< Star(Dot), Lit(<<"b","a","c","k","u","p">>) >>), Star(Dot), Lit(<<"d","a","t","a","b","a","s","e">>) >>],
     [category |-> "performance", rule |-> "no_caching", severity |-> "medium",
      source |-> <<"(","?","!",".","*","c","a","c","h","e",")","(","?","!",".","*","r","e","d","i","s",")","(","?","!",".","*","m","e","m","c","a","c","h","e",")",".","*","w","e","b",".","*","a","p","p","l","i","c","a","t","i","o","n">>,
      re |-> << NotAhead(<< Star(Dot), Lit(<<"c","a","c","h","e">>) >>),
                NotAhead(<< Star(Dot), Lit(<<"r","e","d","i","s">>) >>),
                NotAhead(<< Star(Dot), Lit(<<"m","e","m","c","a","c","h","e">>) >>),
                Star(Dot), Lit(<<"w","e","b">>), Star(Dot), Lit(<<"a","p","p","l","i","c","a","t","i","o","n">>) >>],
     [category |-> "performance", rule |-> "no_cdn", severity |-> "low",
      source |-> <<"(","?","!",".","*","c","l","o","u","d","f","r","o","n","t",")","(","?","!",".","*","c","d","n",")",".","*","s","t","a","t","i","c",".","*","c","o","n","t","e","n","t">>,
      re |-> << NotAhead(<< Star(Dot), Lit(<<"c","l","o","u","d","f","r","o","n","t">>) >>),
                NotAhead(<< Star(Dot), Lit(<<"c","d","n">>) >>),
                Star(Dot), Lit(<<"s","t","a","t","i","c">>), Star(Dot), Lit(<<"c","o","n","t","e","n","t">>) >>] >>

UpperOf == [c \in {LowerOf[u] : u \in DOMAIN LowerOf} |-> CHOOSE u \in DOMAIN LowerOf : LowerOf[u] = c]

\* str.upper()
upper(s) == [i \in 1..Len(s) |-> IF s[i] \in DOMAIN UpperOf THEN UpperOf[s[i]] ELSE s[i]]

\* str(n) for 0 <= n < 100
str_of_int(n) ==
  LET digit(d) == << "0", "1", "2", "3", "4", "5", "6", "7", "8", "9" >>[d + 1]
  IN  IF n < 10 THEN << digit(n) >> ELSE << digit(n \div 10), digit(n % 10) >>

\* rule_config['message']
rule_message(rule) ==
  CASE rule = "hardcoded_secrets"     -> "Hardcoded credentials detected - security risk"
    [] rule = "public_access"         -> "Public access configuration detected"
    [] rule = "encryption_disabled"   -> "Encryption is disabled"
    [] rule = "oversized_instances"   -> "Potentially oversized compute instances detected"
    [] rule = "no_reserved_instances" -> "Consider using reserved instances for cost savings"
    [] rule = "single_az"             -> "Single AZ deployment - consider multi-AZ for high availability"
    [] rule = "no_backups"            -> "No backup configuration detected"
    [] rule = "no_caching"            -> "No caching layer detected - consider adding cache for better performance"
    [] rule = "no_cdn"                -> "Consider using CDN for static content delivery"

\* the rule name as a str
rule_name(rule) ==
  CASE rule = "hardcoded_secrets"     -> <<"h","a","r","d","c","o","d","e","d","_","s","e","c","r","e","t","s">>
    [] rule = "public_access"         -> <<"p","u","b","l","i","c","_","a","c","c","e","s","s">>
    [] rule = "encryption_disabled"   -> <<"e","n","c","r","y","p","t","i","o","n","_","d","i","s","a","b","l","e","d">>
    [] rule = "oversized_instances"   -> <<"o","v","e","r","s","i","z","e","d","_","i","n","s","t","a","n","c","e","s">>
    [] rule = "no_reserved_instances" -> <<"n","o","_","r","e","s","e","r","v","e","d","_","i","n","s","t","a","n","c","e","s">>
    [] rule = "single_az"             -> <<"s","i","n","g","l","e","_","a","z">>
    [] rule = "no_backups"            -> <<"n","o","_","b","a","c","k","u","p","s">>
    [] rule = "no_caching"            -> <<"n","o","_","c","a","c","h","i","n","g">>
    [] rule = "no_cdn"                -> <<"n","o","_","c","d","n">>

get_business_impact(severity, category) ==
  IF severity = "critical" THEN
       CASE category = "security"    -> "High risk of data breach and regulatory fines"
         [] category = "reliability" -> "Service outages will affect business operations"
         [] category = "cost"        -> "Significant budget overruns expected"
         [] category = "performance" -> "User experience degradation affects customer retention"
  ELSE IF severity = "high" THEN
       CASE category = "security"    -> "Moderate security risk requiring attention"
         [] category = "reliability" -> "Potential service disruptions"
         [] category = "cost"        -> "Budget inefficiencies identified"
         [] category = "performance" -> "Performance issues may impact user satisfaction"
  ELSE IF severity = "medium" THEN
       CASE category = "security"    -> "Security improvement opportunity"
         [] category = "reliability" -> "Reliability enhancement recommended"
         [] category = "cost"        -> "Cost optimization opportunity available"
         [] category = "performance" -> "Performance tuning recommended"
  ELSE "Business impact assessment needed"

\* the id without the length of the list: f'LOCAL_{rule_name.upper()}'
issue_id_of_rule(rule, n) == <<"L","O","C","A","L","_">> \o upper(rule_name(rule))

\* f'LOCAL_{rule_name.upper()}_{len(issues)}'
issue_id(rule, n) == <<"L","O","C","A","L","_">> \o upper(rule_name(rule)) \o <<"_">> \o str_of_int(n)

\* the dict with the severity of the rule lost: every Finding is 'high'
make_issue_high(entry, matches, issues) ==
  [id              |-> issue_id(entry.rule, Len(issues)),
   severity        |-> "high",
   category        |-> entry.category,
   detail          |-> rule_message(entry.rule),
   evidence        |-> <<"P","a","t","t","e","r","n"," ","m","a","t","c","h","e","d",":"," ">> \o entry.source,
   business_impact |-> get_business_impact("high", entry.category),
   matches_found   |-> Len(matches),
   rule            |-> entry.rule]

\* the dict appended for a pattern with matches, issues being the list so far
make_issue(entry, matches, issues) ==
  [id              |-> issue_id(entry.rule, Len(issues)),
   severity        |-> entry.severity,
   category        |-> entry.category,
   detail          |-> rule_message(entry.rule),
   evidence        |-> <<"P","a","t","t","e","r","n"," ","m","a","t","c","h","e","d",":"," ">> \o entry.source,
   business_impact |-> get_business_impact(entry.severity, entry.category),
   matches_found   |-> Len(matches),
   rule            |-> entry.rule]

RECURSIVE detect_issues_one_per_rule(_, _, _)
\* the loops of _detect_issues, had the loop over the patterns of a rule
\* stopped at the first pattern with matches
detect_issues_one_per_rule(k, issues, architecture_text) ==
  IF k > Len(rule_patterns) THEN issues
  ELSE LET matches == findall(rule_patterns[k].re, architecture_text)
           reported == \E i \in 1..Len(issues) : issues[i].rule = rule_patterns[k].rule
       IN  detect_issues_one_per_rule(k + 1,
              IF matches # <<>> /\ ~reported
              THEN Append(issues, make_issue(rule_patterns[k], matches, issues))
              ELSE issues,
              architecture_text)

RECURSIVE detect_issues_from(_, _, _)
\* the loops of _detect_issues from catalog entry k on
detect_issues_from(k, issues, architecture_text) ==
  IF k > Len(rule_patterns) THEN issues
  ELSE LET matches == findall(rule_patterns[k].re, architecture_text)
       IN  detect_issues_from(k + 1,
              IF matches # <<>>
              THEN Append(issues, make_issue(rule_patterns[k], matches, issues))
              ELSE issues,
              architecture_text)

detect_issues(architecture_text) == detect_issues_from(1, <<>>, architecture_text)

\* self.architecture_patterns, in iteration order
architecture_patterns ==
  << [name |-> "monolith",
      indicators |-> << << Lit(<<"s","i","n","g","l","e">>), Star(Dot), Lit(<<"a","p","p","l","i","c","a","t","i","o","n">>) >>,
                        << Lit(<<"m","o","n","o","l","i","t","h","i","c">>) >>,
                        << Lit(<<"a","l","l">>), Star(Dot), Lit(<<"i","n">>), Star(Dot), Lit(<<"o","n","e">>) >> >>,
      score_adjustments |-> << <<"scalability", -10>>, <<"maintainability", -5>> >>],
     [name |-> "microservices",
      indicators |-> << << Lit(<<"m","i","c","r","o","s","e","r","v","i","c","e">>) >>,
                        << Lit(<<"s","e","r","v","i","c","e">>), Star(Dot), Lit(<<"m","e","s","h">>) >>,
                        << Lit(<<"a","p","i">>), Star(Dot), Lit(<<"g","a","t","e","w","a","y">>) >> >>,
      score_adjustments |-> << <<"scalability", 15>>, <<"complexity", 5>> >>],
     [name |-> "serverless",
      indicators |-> << << Lit(<<"l","a","m","b","d","a">>) >>,
                        << Lit(<<"f","u","n","c","t","i","o","n">>), Star(Dot), Lit(<<"a","p","p">>) >>,
                        << Lit(<<"c","l","o","u","d">>), Star(Dot), Lit(<<"f","u","n","c","t","i","o","n","s">>) >> >>,
      score_adjustments |-> << <<"cost", 10>>, <<"scalability", 10>>, <<"cold_start", -5>> >>],
     [name |-> "container",
      indicators |-> << << Lit(<<"d","o","c","k","e","r">>) >>, << Lit(<<"k","u","b","e","r","n","e","t","e","s">>) >>,
                        << Lit(<<"c","o","n","t","a","i","n","e","r">>) >>, << Lit(<<"e","c","s">>) >> >>,
      score_adjustments |-> << <<"portability", 10>>, <<"scalability", 5>> >>] >>

detect_architecture_pattern(architecture_text) ==
  LET text_lower == lower(architecture_text)
      hit == { p \in 1..Len(architecture_patterns) :
                 \E j \in 1..Len(architecture_patterns[p].indicators) :
                    search(architecture_patterns[p].indicators[j], text_lower) }
  IN  IF hit # {} THEN architecture_patterns[CHOOSE p \in hit : \A q \in hit : p <= q].name
      ELSE IF AnyIn(<< <<"l","a","m","b","d","a">>, <<"f","u","n","c","t","i","o","n">> >>, text_lower) THEN "serverless"
      ELSE IF AnyIn(<< <<"m","i","c","r","o","s","e","r","v","i","c","e">>, <<"a","p","i">> >>, text_lower) THEN "microservices"
      ELSE IF AnyIn(<< <<"c","o","n","t","a","i","n","e","r">>, <<"d","o","c","k","e","r">>, <<"k","u","b","e","r","n","e","t","e","s">> >>, text_lower) THEN "containerized"
      ELSE "traditional"

\* {'critical': 8, 'high': 5, 'medium': 3, 'low': 1}.get(severity, 2)
deduction(severity) ==
  CASE severity = "critical" -> 8
    [] severity = "high"     -> 5
    [] severity = "medium"   -> 3
    [] severity = "low"      -> 1
    [] OTHER                 -> 2

\* base_scores, had the dict been kept from one call to the next
local_base_scores_kept ==
  IF local_last = <<>>
  THEN [overall |-> 75, security |-> 22, reliability |-> 23, performance |-> 15, cost |-> 15]
  ELSE local_last[1].score

\* base_scores, a fresh dict in every call
local_base_scores ==
  [overall |-> 75, security |-> 22, reliability |-> 23, performance |-> 15, cost |-> 15]

RECURSIVE apply_adjustments(_, _)
\* the loop over adjustments.items()
apply_adjustments(base_scores, adjustments) ==
  IF adjustments = <<>> THEN base_scores
  ELSE LET category == Head(adjustments)[1]
           adjustment == Head(adjustments)[2]
       IN  apply_adjustments(
             IF category \in DOMAIN base_scores
             THEN [base_scores EXCEPT ![category] = Max(0, Min(30, base_scores[category] + adjustment))]
             ELSE base_scores,
             Tail(adjustments))

\* the deducted score without the floor
not_floored(score) == score

\* max(0, score)
floored(score) == Max(0, score)

RECURSIVE apply_deductions(_, _)
\* the loop over the issues
apply_deductions(base_scores, issues) ==
  IF issues = <<>> THEN base_scores
  ELSE LET category == Head(issues).category
           d == deduction(Head(issues).severity)
       IN  apply_deductions(
             IF category \in DOMAIN base_scores /\ category # "overall"
             THEN [base_scores EXCEPT ![category] = floored(base_scores[category] - d)]
             ELSE base_scores,
             Tail(issues))

\* _calculate_local_scores once the pattern and the issues of the text are known
local_scores_of(pattern, issues) ==
  LET known == { p \in 1..Len(architecture_patterns) : architecture_patterns[p].name = pattern }
      adjusted == IF known # {}
                  THEN apply_adjustments(local_base_scores,
                          architecture_patterns[CHOOSE p \in known : TRUE].score_adjustments)
                  ELSE local_base_scores
      deducted == apply_deductions(adjusted, issues)
  IN  [deducted EXCEPT !.overall = deducted.security + deducted.reliability
                                   + deducted.performance + deducted.cost]

calculate_local_scores(architecture_text) ==
  local_scores_of(detect_architecture_pattern(architecture_text), detect_issues(architecture_text))

\* the values interpolated into the summary template
local_summary_of(pattern, issues, comps, user_region) ==
  [pattern         |-> pattern,
   user_region     |-> user_region,
   components      |-> Len(comps),
   critical_issues |-> Cardinality({i \in 1..Len(issues) : issues[i].severity = "critical"})]

generate_local_summary(architecture_text, user_region) ==
  local_summary_of(detect_architecture_pattern(architecture_text), detect_issues(architecture_text),
                   extract_components(architecture_text), user_region)

\* the recommendations with the cost optimization appended first
local_recommendations_cost_first(issues, architecture_text) ==
  LET text_lower == lower(architecture_text)
      security_issues == Cardinality({i \in 1..Len(issues) : issues[i].category = "security"})
  IN  (IF Contains(<<"x","l","a","r","g","e">>, text_lower) \/ Contains(<<"l","a","r","g","e">>, text_lower)
       THEN << [title |-> "Optimize Instance Sizing", priority |-> "P2", found |-> 0] >>
       ELSE <<>>)
      \o (IF security_issues > 0
          THEN << [title |-> "Implement Security Best Practices", priority |-> "P0",
                   found |-> security_issues] >>
          ELSE <<>>)
      \o (IF ~Contains(<<"m","u","l","t","i">>, text_lower) /\ ~Contains(<<"a","v","a","i","l","a","b","i","l","i","t","y">>, text_lower)
          THEN << [title |-> "Enable Multi-AZ High Availability", priority |-> "P1", found |-> 0] >>
          ELSE <<>>)

\* LocalAnalysisEngine._generate_recommendations: title and priority of each
\* dict, and the number of security issues its rationale names; issues is
\* self._detect_issues(architecture_text)
local_recommendations(issues, architecture_text) ==
  LET text_lower == lower(architecture_text)
      security_issues == Cardinality({i \in 1..Len(issues) : issues[i].category = "security"})
  IN  (IF security_issues > 0
       THEN << [title |-> "Implement Security Best Practices", priority |-> "P0",
                found |-> security_issues] >>
       ELSE <<>>)
      \o (IF ~Contains(<<"m","u","l","t","i">>, text_lower) /\ ~Contains(<<"a","v","a","i","l","a","b","i","l","i","t","y">>, text_lower)
          THEN << [title |-> "Enable Multi-AZ High Availability", priority |-> "P1", found |-> 0] >>
          ELSE <<>>)
      \o (IF Contains(<<"x","l","a","r","g","e">>, text_lower) \/ Contains(<<"l","a","r","g","e">>, text_lower)
          THEN << [title |-> "Optimize Instance Sizing", priority |-> "P2", found |-> 0] >>
          ELSE <<>>)

\* the summary, score, issues, recommendations, pattern and method of the returned dict; the
\* helpers are functions of the text alone, so that each is computed once here
analyze_architecture_local(architecture_text, user_region) ==
  LET pattern == detect_architecture_pattern(architecture_text)
      issues == detect_issues(architecture_text)
  IN  [summary          |-> local_summary_of(pattern, issues, extract_components(architecture_text), user_region),
       score            |-> local_scores_of(pattern, issues),
       issues           |-> issues,
       recommendations  |-> local_recommendations(issues, architecture_text),
       pattern_detected |-> pattern,
       analysis_method  |-> "local_fallback"]

(***************************************************************************)
(* Calls of the local analysis.                                            *)
(***************************************************************************)
LocalFragments ==
  << <<"p","a","s","s","w","o","r","d","=","\"","a","b","c","d","e","f","g","h","\"","\n","s","e","c","r","e","t","_","k","e","y","=","\"","0","1","2","3","4","5","6","7","8","9","a","b","c","d","e","f","\"","\n">>,
     <<"0",".","0",".","0",".","0","/","0","\n","s","s","l","=","f","a","l","s","e","\n">>,
     <<"i","n","s","t","a","n","c","e","_","t","y","p","e","=","m","5",".","4","x","l","a","r","g","e","\n">>,
     <<"w","e","b"," ","a","p","p","l","i","c","a","t","i","o","n"," ","d","a","t","a","b","a","s","e","\n">>,
     <<"L","a","m","b","d","a","\n">> >>

Regions == {"us-west-2", "eu-west-1"}

LocalInit ==
  /\ local_pc = "idle"
  /\ local_text = <<>>
  /\ local_region = "us-west-2"
  /\ local_last = <<>>
  /\ local_prev = <<>>

\* a caller passes a text and a region
LocalCall(fs, region) ==
  /\ UNCHANGED outside_local
  /\ local_pc = "idle"
  /\ local_pc' = "called"
  /\ local_text' = TextOf(LocalFragments, fs)
  /\ local_region' = region
  /\ local_last' = <<>>
  /\ local_prev' = <<>>

\* the scenario texts of the test suite
Scenarios ==
  << <<"E","C","2"," ","w","e","b"," ","s","e","r","v","e","r"," ","c","o","n","n","e","c","t","e","d"," ","t","o"," ","M","y","S","Q","L"," ","R","D","S"," ","d","a","t","a","b","a","s","e",","," ","s","i","n","g","l","e"," ","a","v","a","i","l","a","b","i","l","i","t","y"," ","z","o","n","e",","," ","n","o"," ","e","n","c","r","y","p","t","i","o","n">>,
     <<"M","u","l","t","i","-","A","Z"," ","R","D","S"," ","w","i","t","h"," ","e","n","c","r","y","p","t","i","o","n"," ","e","n","a","b","l","e","d",","," ","a","u","t","o","-","s","c","a","l","i","n","g"," ","g","r","o","u","p",","," ","E","l","a","s","t","i","C","a","c","h","e"," ","R","e","d","i","s",","," ","C","l","o","u","d","F","r","o","n","t"," ","C","D","N",","," ","W","A","F">>,
     <<>>,
     <<"p","a","s","s","w","o","r","d"," ","="," ","\"","S","u","p","3","r","S","e","c","r","e","t","1","2","3","\"">>,
     <<"T","h","e"," ","s","e","r","v","i","c","e"," ","l","o","g","s"," ","i","n"," ","w","i","t","h"," ","p","a","s","s","w","o","r","d"," ","="," ","\"","S","u","p","3","r","S","e","c","r","e","t","1","2","3","\""," ","t","o","d","a","y">> >>

\* a caller passes a scenario text and a region
LocalScenario(n, region) ==
  /\ UNCHANGED outside_local
  /\ local_pc = "idle"
  /\ local_pc' = "called"
  /\ local_text' = Scenarios[n]
  /\ local_region' = region
  /\ local_last' = <<>>
  /\ local_prev' = <<>>

\* LocalAnalysisEngine.analyze_architecture_local
LocalAnalyze ==
  /\ UNCHANGED outside_local
  /\ local_pc = "called"
  /\ local_last' = << analyze_architecture_local(local_text, local_region) >>
  /\ local_pc' = "returned"
  /\ UNCHANGED <<local_text, local_region, local_prev>>

\* the caller calls again with the same arguments
LocalCallAgain ==
  /\ UNCHANGED outside_local
  /\ local_pc = "returned"
  /\ local_prev = <<>>
  /\ local_prev' = local_last
  /\ local_pc' = "called"
  /\ UNCHANGED <<local_text, local_region, local_last>>

\* the caller is done with the text
LocalDone ==
  /\ UNCHANGED outside_local
  /\ local_pc = "returned"
  /\ local_pc' = "idle"
  /\ local_text' = <<>>
  /\ local_region' = "us-west-2"
  /\ local_last' = <<>>
  /\ local_prev' = <<>>

LocalNext ==
  \/ \E fs \in FragSeqs(LocalFragments), region \in Regions : LocalCall(fs, region)
  \/ \E n \in 1..Len(Scenarios), region \in Regions : LocalScenario(n, region)
  \/ LocalAnalyze
  \/ LocalCallAgain
  \/ LocalDone

(***************************************************************************)
(* StaticAnalyzer._built_in_analysis of utils/static_analyzer.py.          *)
(***************************************************************************)
\* patterns, in iteration order, for each iac_type
builtin_patterns(iac_type) ==
  IF iac_type = "terraform" THEN
    << [check |-> <<"s","3","_","p","u","b","l","i","c","_","r","e","a","d">>, severity |-> "high",
        re |-> << Lit(<<"a","c","l">>) >> \o Equals \o << One(Quote), Lit(<<"p","u","b","l","i","c","-","r","e","a","d">>), One(Quote) >>],
       [check |-> <<"s","3","_","p","u","b","l","i","c","_","r","e","a","d","w","r","i","t","e">>, severity |-> "critical",
        re |-> << Lit(<<"a","c","l">>) >> \o Equals \o << One(Quote), Lit(<<"p","u","b","l","i","c","-","r","e","a","d","-","w","r","i","t","e">>), One(Quote) >>],
       [check |-> <<"s","g","_","a","l","l","_","p","o","r","t","s">>, severity |-> "high",
        re |-> << Lit(<<"f","r","o","m","_","p","o","r","t">>) >> \o Equals \o << Lit(<<"0">>), AtLeast(Space, 1), Lit(<<"t","o","_","p","o","r","t">>) >>
               \o Equals \o << Lit(<<"6","5","5","3","5">>) >>],
       [check |-> <<"s","g","_","o","p","e","n","_","i","n","t","e","r","n","e","t">>, severity |-> "medium",
        re |-> << Lit(<<"c","i","d","r","_","b","l","o","c","k","s">>) >> \o Equals
               \o << Lit(<<"[">>), Star(Space), One(Quote), Lit(<<"0",".","0",".","0",".","0","/","0">>), One(Quote) >>],
       [check |-> <<"d","b","_","p","u","b","l","i","c","_","a","c","c","e","s","s">>, severity |-> "high",
        re |-> << Lit(<<"p","u","b","l","i","c","l","y","_","a","c","c","e","s","s","i","b","l","e">>) >> \o Equals \o << Lit(<<"t","r","u","e">>) >>],
       [check |-> <<"e","n","c","r","y","p","t","i","o","n","_","d","i","s","a","b","l","e","d">>, severity |-> "medium",
        re |-> << Lit(<<"e","n","c","r","y","p","t","e","d">>) >> \o Equals \o << Lit(<<"f","a","l","s","e">>) >>] >>
  ELSE IF iac_type = "kubernetes" THEN
    << [check |-> <<"p","r","i","v","i","l","e","g","e","d","_","c","o","n","t","a","i","n","e","r">>, severity |-> "high",
        re |-> << Lit(<<"p","r","i","v","i","l","e","g","e","d",":">>), Star(Space), Lit(<<"t","r","u","e">>) >>],
       [check |-> <<"r","o","o","t","_","u","s","e","r">>, severity |-> "medium",
        re |-> << Lit(<<"r","u","n","a","s","u","s","e","r",":">>), Star(Space), Lit(<<"0">>) >>],
       [check |-> <<"h","o","s","t","_","n","e","t","w","o","r","k">>, severity |-> "high",
        re |-> << Lit(<<"h","o","s","t","n","e","t","w","o","r","k",":">>), Star(Space), Lit(<<"t","r","u","e">>) >>],
       [check |-> <<"n","o","_","r","e","s","o","u","r","c","e","_","l","i","m","i","t","s">>, severity |-> "low",
        re |-> << Lit(<<"s","p","e","c",":">>), NotAhead(<< Star(Dot), Lit(<<"l","i","m","i","t","s">>) >>), Star(Dot),
                  Lit(<<"c","o","n","t","a","i","n","e","r","s",":">>) >>] >>
  ELSE
    << [check |-> <<"p","a","s","s","w","o","r","d","_","h","a","r","d","c","o","d","e","d">>, severity |-> "critical",
        re |-> << Lit(<<"p","a","s","s","w","o","r","d">>) >> \o Assign \o << One(Quote), AtLeast(NotQuote, 8), One(Quote) >>],
       [check |-> <<"a","p","i","_","k","e","y","_","h","a","r","d","c","o","d","e","d">>, severity |-> "high",
        re |-> << Lit(<<"a","p","i">>), OptDash, Lit(<<"k","e","y">>) >> \o Assign
               \o << One(Quote), AtLeast(Class(Letters \cup Digits), 20), One(Quote) >>] >>

\* the strings re.findall returns: the matched parts of the content itself
matched_strings(content, matches) ==
  [i \in 1..Len(matches) |-> SubSeq(content, matches[i][1], matches[i][2] - 1)]

\* matches[:3]
first_three(matches) == SubSeq(matches, 1, Min(3, Len(matches)))

\* the dict appended to failed_checks
failed_check(check_info, content, matches) ==
  [check_id |-> <<"B","U","I","L","T","I","N","_">> \o upper(check_info.check),
   severity |-> check_info.severity,
   matches  |-> Len(matches),
   evidence |-> first_three(matched_strings(content, matches))]

RECURSIVE check_patterns_from(_, _, _, _)
\* the loop over patterns.items() from entry k on
check_patterns_from(k, patterns, results, content) ==
  IF k > Len(patterns) THEN results
  ELSE LET matches == findall(patterns[k].re, content)
       IN  check_patterns_from(k + 1, patterns,
              IF matches # <<>>
              THEN [results EXCEPT !.total_checks = @ + 1,
                                   !.failed_checks = @ + 1,
                                   !.failed = Append(@, failed_check(patterns[k], content, matches))]
              ELSE [results EXCEPT !.total_checks = @ + 1,
                                   !.passed_checks = @ + 1],
              content)

\* the summary counts and the failed_checks of the returned dict
built_in_analysis(content, iac_type) ==
  check_patterns_from(1, builtin_patterns(iac_type),
     [total_checks |-> 0, passed_checks |-> 0, failed_checks |-> 0, failed |-> <<>>],
     content)

(***************************************************************************)
(* Calls of the built-in static analysis.                                  *)
(***************************************************************************)
StaticFragments ==
  << <<"a","c","l"," ","="," ","\"","P","u","b","l","i","c","-","R","e","a","d","\"","\n">>,
     <<"a","c","l","=","\"","p","u","b","l","i","c","-","r","e","a","d","-","w","r","i","t","e","\"","\n">>,
     <<"e","n","c","r","y","p","t","e","d","=","f","a","l","s","e"," ","E","n","c","r","y","p","t","e","d"," ","="," ","f","a","l","s","e","\n">>,
     <<"p","a","s","s","w","o","r","d",":"," ","\"","a","b","c","d","e","f","g","h","\"","\n">>,
     <<"h","o","s","t","N","e","t","w","o","r","k",":"," ","t","r","u","e","\n","r","u","n","A","s","U","s","e","r",":"," ","0","\n">>,
     <<"s","p","e","c",":"," ","c","o","n","t","a","i","n","e","r","s",":","\n">> >>

IacTypes == {"terraform", "kubernetes", "generic"}

StaticInit ==
  /\ static_pc = "idle"
  /\ static_content = <<>>
  /\ static_type = "generic"
  /\ static_out = <<>>

\* a caller passes a content and the type found by the code parser
StaticCall(fs, iac_type) ==
  /\ UNCHANGED outside_static
  /\ static_pc = "idle"
  /\ static_pc' = "called"
  /\ static_content' = TextOf(StaticFragments, fs)
  /\ static_type' = iac_type
  /\ static_out' = <<>>

\* StaticAnalyzer._built_in_analysis
BuiltInAnalysis ==
  /\ UNCHANGED outside_static
  /\ static_pc = "called"
  /\ static_out' = << built_in_analysis(static_content, static_type) >>
  /\ static_pc' = "returned"
  /\ UNCHANGED <<static_content, static_type>>

\* the caller is done with the result
StaticDone ==
  /\ UNCHANGED outside_static
  /\ static_pc = "returned"
  /\ static_pc' = "idle"
  /\ static_content' = <<>>
  /\ static_type' = "generic"
  /\ static_out' = <<>>

StaticNext ==
  \/ \E fs \in FragSeqs(StaticFragments), iac_type \in IacTypes : StaticCall(fs, iac_type)
  \/ BuiltInAnalysis
  \/ StaticDone

(***************************************************************************)
(* analyze_architecture of utils/ai_engine.py and its chain of fallbacks.  *)
(*                                                                         *)
(* A call ends in a record: [raised |-> TRUE, exception] for an exception  *)
(* that leaves the function, and otherwise the keys of the returned dict   *)
(* with its analysis_method ("absent" if the dict has none) and its score; *)
(* a dict of the local analysis also has its summary and issues, and the   *)
(* keys written into it afterwards by dict.update.                         *)
(***************************************************************************)
\* the attribute is not defined on the request object
NoAttribute == "<no attribute>"

Raised(exception) == [raised |-> TRUE, exception |-> exception]

\* the keys of the dict built by analyze_architecture_local
local_result_keys ==
  {"summary", "score", "issues", "recommendations", "diagram_mermaid", "estimated_cost",
   "compliance_assessment", "pattern_detected", "analysis_method", "timestamp"}

\* local_fallback.analyze_architecture_local(architecture_text, user_region),
\* called from analyze_architecture: None has no lower(), so the call raises
local_fallback_call(architecture_text, user_region) ==
  IF architecture_text = None THEN Raised("AttributeError")
  ELSE LET analysis == analyze_architecture_local(architecture_text, user_region)
       IN  [raised          |-> FALSE,
            keys            |-> local_result_keys,
            analysis_method |-> analysis.analysis_method,
            score           |-> analysis.score,
            summary         |-> analysis.summary,
            issues          |-> analysis.issues,
            written         |-> {}]

\* an update that also writes the placeholder scores of the dashboard into
\* the result of the route without API key
updated_with_base_scores(local_analysis, more_keys, method) ==
  [local_analysis EXCEPT !.keys = @ \cup more_keys \cup {"analysis_method"},
                         !.written = @ \cup more_keys \cup {"analysis_method"}
                                       \cup (IF method = "enhanced_local_fallback" THEN {"score"} ELSE {}),
                         !.score = IF method = "enhanced_local_fallback"
                                   THEN [overall |-> 75, security |-> 22, reliability |-> 23,
                                         performance |-> 15, cost |-> 15]
                                   ELSE @,
                         !.analysis_method = method]

\* local_analysis.update({..., 'analysis_method': method})
updated(local_analysis, more_keys, method) ==
  [local_analysis EXCEPT !.keys = @ \cup more_keys \cup {"analysis_method"},
                         !.written = @ \cup more_keys \cup {"analysis_method"},
                         !.analysis_method = method]

\* the keys added from the steps before the LLM call
enhancement_keys == {"code_analysis", "static_analysis", "plotly_charts", "enhanced_diagrams"}

\* the dict of the final emergency response
emergency_response ==
  [raised          |-> FALSE,
   keys            |-> {"summary", "score", "issues", "recommendations", "diagram_mermaid",
                        "estimated_cost", "compliance_assessment", "analysis_id", "timestamp",
                        "confidence_score", "region_optimized", "stackstage_version"},
   analysis_method |-> "absent",
   score           |-> [overall |-> 78, security |-> 23, reliability |-> 24,
                        performance |-> 16, cost |-> 15]]

\* the handler `except Exception as e` of the pipeline: the local analysis on
\* data.architecture_text and data.user_region, and the emergency response
\* when that raises.  The emergency response formats data.user_region inside
\* the inner handler, where nothing catches what it raises.  local_analysis is
\* how local_fallback.analyze_architecture_local ends for this request.
pipeline_error_handler(d, local_analysis) ==
  IF d.user_region = NoAttribute THEN Raised("AttributeError")
  ELSE IF local_analysis.raised THEN emergency_response
  ELSE updated(local_analysis, {"error"}, "emergency_local_fallback")

\* the dict built from the decoded reply of the LLM; a key missing in the
\* reply gets its default
hybrid_response(reply_score) ==
  [raised          |-> FALSE,
   keys            |-> {"summary", "score", "issues", "recommendations", "diagram_mermaid",
                        "estimated_cost", "compliance_assessment", "analysis_id", "timestamp",
                        "confidence_score", "region_optimized"},
   analysis_method |-> "absent",
   score           |-> IF reply_score # <<>> THEN reply_score[1]
                       ELSE [overall |-> 75, security |-> 22, reliability |-> 23,
                             performance |-> 15, cost |-> 15]]

\* the steps before the API key is looked at, and the steps of the LLM call
StepsBeforeLLM ==
  {"parse_code", "analyze_content", "create_comprehensive_dashboard", "create_architecture_diagram"}
StepsOfLLM == {"post", "status_code", "choices"}

\* where the try block of analyze_architecture(data) ends; env.fault is the
\* first step that raises ("none": no step does, "json.loads": the reply is not
\* JSON)
try_block_end(d, env) ==
  IF d.user_region = NoAttribute THEN "except"
  ELSE IF env.fault \in StepsBeforeLLM THEN "except"
  ELSE IF ~env.api_key THEN "no_api_key"
  ELSE IF env.fault \in StepsOfLLM THEN "except"
  ELSE IF env.fault = "json.loads" THEN "json_decode_error"
  ELSE "reply_decoded"

\* the requests.post calls of analyze_architecture(data): the one at the end
\* of the try block, behind the return of the branch `if not OPENROUTER_API_KEY`
posts_issued(d, env) ==
  IF d.user_region = NoAttribute \/ env.fault \in StepsBeforeLLM THEN 0
  ELSE IF ~env.api_key THEN 0
  ELSE 1

\* analyze_architecture(data); the local analysis is a function of the text
\* and the region, so that local_analysis stands for each of its calls
analyze_architecture(d, env, local_analysis) ==
  LET end == try_block_end(d, env)
  IN  IF end = "reply_decoded" THEN hybrid_response(env.reply_score)
      ELSE IF end = "except" \/ local_analysis.raised THEN pipeline_error_handler(d, local_analysis)
      ELSE updated(local_analysis,
                   IF end = "no_api_key" THEN enhancement_keys ELSE enhancement_keys \cup {"ai_error"},
                   IF end = "no_api_key" THEN "enhanced_local_fallback"
                   ELSE "enhanced_fallback_after_ai_failure")

(***************************************************************************)
(* Calls of analyze_architecture.                                          *)
(***************************************************************************)
\* the texts of a request
AnalyzeTexts == {LocalFragments[i] : i \in 1..Len(LocalFragments)}

\* the contents of an uploaded file
FileContents == {LocalFragments[1], LocalFragments[4]}

\* request objects: an AnalyzeRequest of models/schemas.py has no user_region;
\* a request has architecture_text, or file_content alone (the upload route
\* passes architecture_text=None), the router refusing a request with neither
Requests ==
  [architecture_text : AnalyzeTexts, file_content : {None}, user_region : Regions \cup {NoAttribute}]
  \cup [architecture_text : {None}, file_content : FileContents, user_region : Regions \cup {NoAttribute}]

\* a score as the LLM may reply it
ReplyScore == [overall |-> 82, security |-> 25, reliability |-> 24, performance |-> 17, cost |-> 16]

\* without an API key no LLM step is reached
Environments ==
  { env \in [api_key : BOOLEAN,
             fault : {"none", "json.loads"} \cup StepsBeforeLLM \cup StepsOfLLM,
             reply_score : {<<>>, << ReplyScore >>}] :
      /\ env.fault \in StepsOfLLM \cup {"json.loads"} => env.api_key
      /\ env.reply_score # <<>> => env.api_key /\ env.fault = "none" }

AnInit ==
  /\ an_pc = "idle"
  /\ data = <<>>
  /\ openrouter = <<>>
  /\ an_out = <<>>
  /\ an_prev = <<>>
  /\ llm_posts = 0

\* a router calls analyze_architecture(data)
AnalyzeCall(d, env) ==
  /\ UNCHANGED outside_an
  /\ an_pc = "idle"
  /\ an_pc' = "called"
  /\ data' = << d >>
  /\ openrouter' = << env >>
  /\ an_out' = <<>>
  /\ an_prev' = <<>>
  /\ llm_posts' = 0

\* the same request object is passed again, under other conditions
AnalyzeCallAgain(env) ==
  /\ UNCHANGED outside_an
  /\ an_pc = "returned"
  /\ an_prev = <<>>
  /\ an_pc' = "called"
  /\ openrouter' = << env >>
  /\ an_prev' = an_out
  /\ an_out' = <<>>
  /\ llm_posts' = 0
  /\ UNCHANGED data

\* analyze_architecture runs to its end
AnalyzeArchitecture ==
  /\ UNCHANGED outside_an
  /\ an_pc = "called"
  /\ an_out' = << analyze_architecture(data[1], openrouter[1],
                   local_fallback_call(data[1].architecture_text, data[1].user_region)) >>
  /\ llm_posts' = posts_issued(data[1], openrouter[1])
  /\ an_pc' = IF an_out'[1].raised THEN "raised" ELSE "returned"
  /\ UNCHANGED <<data, openrouter, an_prev>>

\* the router answers: with the result, or with status 500 for an exception
AnalyzeRespond ==
  /\ UNCHANGED outside_an
  /\ an_pc \in {"returned", "raised"}
  /\ an_pc' = "idle"
  /\ data' = <<>>
  /\ openrouter' = <<>>
  /\ an_out' = <<>>
  /\ an_prev' = <<>>
  /\ llm_posts' = 0

AnNext ==
  \/ \E d \in Requests, env \in Environments : AnalyzeCall(d, env)
  \/ \E env \in Environments : AnalyzeCallAgain(env)
  \/ AnalyzeArchitecture
  \/ AnalyzeRespond
(***************************************************************************)
(* Concurrent requests to AnalysisEngine.analyze (analysis_engine.py).     *)
(*                                                                         *)
(* Each request is a coroutine with its own local variables; the requests  *)
(* interleave at every await.  The engine object is shared: its            *)
(* analysis_cache is written by every request under an id made of the      *)
(* clock in seconds.                                                       *)
(***************************************************************************)
NumTasks == 2
MaxClock == 1

IsSpace(c) == c \in {" ", "\t", "\n", "\r"}

\* re.sub(r'\s+', ' ', content.strip())
cleaned_content(content) ==
  LET N == Len(content)
      starts_run(i) == IsSpace(content[i]) /\ i > 1 /\ ~IsSpace(content[i - 1])
                       /\ \E j \in (i + 1)..N : ~IsSpace(content[j])
      kept(i) == ~IsSpace(content[i]) \/ starts_run(i)
      idx == SelectSeq([i \in 1..N |-> i], kept)
  IN  [k \in 1..Len(idx) |-> IF IsSpace(content[idx[k]]) THEN " " ELSE content[idx[k]]]

\* AnalysisEngine._parse_content(content, None)
parse_content(content) ==
  LET cleaned == cleaned_content(content)
  IN  IF Contains(<<"t","e","r","r","a","f","o","r","m">>, lower(content)) \/ Contains(<<".","t","f">>, lower(content))
        THEN <<"[","T","E","R","R","A","F","O","R","M","]","\n">> \o cleaned
      ELSE IF Contains(<<"c","l","o","u","d","f","o","r","m","a","t","i","o","n">>, lower(content)) \/ Contains(<<"a","w","s",":",":">>, content)
        THEN <<"[","C","L","O","U","D","F","O","R","M","A","T","I","O","N","]","\n">> \o cleaned
      ELSE IF Contains(<<"a","p","i","V","e","r","s","i","o","n">>, content) /\ Contains(<<"k","i","n","d",":">>, content)
        THEN <<"[","K","U","B","E","R","N","E","T","E","S","]","\n">> \o cleaned
      ELSE <<"[","A","R","C","H","I","T","E","C","T","U","R","E","_","D","E","S","C","R","I","P","T","I","O","N","]","\n">> \o cleaned

\* AnalysisEngine._generate_mock_analysis(content, "comprehensive", "aws"),
\* the analysis of an engine without API key
generate_mock_analysis ==
  <<"\n"," "," "," "," "," "," "," "," ","M","o","c","k"," ","a","n","a","l","y","s","i","s"," ","f","o","r"," ","a","w","s"," ","c","o","m","p","r","e","h","e","n","s","i","v","e"," ","a","s","s","e","s","s","m","e","n","t",":","\n"," "," "," "," "," "," "," "," ","\n"," "," "," "," "," "," "," "," ","T","h","e"," ","i","n","f","r","a","s","t","r","u","c","t","u","r","e"," ","s","h","o","w","s"," ","a"," ","s","t","a","n","d","a","r","d"," ","a","w","s"," ","s","e","t","u","p"," ","w","i","t","h"," ","s","e","v","e","r","a","l"," ","a","r","e","a","s"," ","f","o","r"," ","i","m","p","r","o","v","e","m","e","n","t",".","\n"," "," "," "," "," "," "," "," ","K","e","y"," ","c","o","n","s","i","d","e","r","a","t","i","o","n","s"," ","i","n","c","l","u","d","e"," ","s","e","c","u","r","i","t","y"," ","h","a","r","d","e","n","i","n","g",","," ","c","o","s","t"," ","o","p","t","i","m","i","z","a","t","i","o","n",","," ","a","n","d"," ","s","c","a","l","a","b","i","l","i","t","y"," ","p","l","a","n","n","i","n","g",".","\n"," "," "," "," "," "," "," "," ","\n"," "," "," "," "," "," "," "," ","R","e","c","o","m","m","e","n","d","a","t","i","o","n","s"," ","f","o","c","u","s"," ","o","n"," ","i","m","p","l","e","m","e","n","t","i","n","g"," ","b","e","s","t"," ","p","r","a","c","t","i","c","e","s"," ","f","o","r"," ","c","l","o","u","d"," ","a","r","c","h","i","t","e","c","t","u","r","e"," ","d","e","s","i","g","n",".","\n"," "," "," "," "," "," "," "," ">>

\* AnalysisEngine._extract_issues(analysis, content)
extract_issues(analysis, content) ==
  LET content_lower == lower(content)
      issue(cond, text) == IF cond THEN << text >> ELSE <<>>
      issues ==
        issue(~Contains(<<"m","u","l","t","i","-","a","z">>, content_lower) /\ ~Contains(<<"a","v","a","i","l","a","b","i","l","i","t","y"," ","z","o","n","e">>, content_lower),
              "No multi-AZ configuration detected for high availability")
        \o issue(~Contains(<<"m","o","n","i","t","o","r","i","n","g">>, content_lower) /\ ~Contains(<<"c","l","o","u","d","w","a","t","c","h">>, content_lower),
                 "Missing monitoring and alerting setup")
        \o issue(~Contains(<<"i","a","m">>, content_lower) /\ ~Contains(<<"r","o","l","e">>, content_lower),
                 "IAM policies and access controls not clearly defined")
        \o issue(~Contains(<<"b","a","c","k","u","p">>, content_lower), "No backup strategy specified")
        \o issue(~Contains(<<"e","n","c","r","y","p","t","i","o","n">>, content_lower),
                 "Encryption at rest and in transit not specified")
        \o issue(Contains(<<"i","s","s","u","e">>, lower(analysis)) \/ Contains(<<"p","r","o","b","l","e","m">>, lower(analysis)),
                 "Additional concerns identified in AI analysis")
  IN  SubSeq(issues, 1, Min(5, Len(issues)))

\* the result dict of analyze, as far as score, issues and recommendations go
analysis_result(analysis_id, sc, issues, recs) ==
  [id |-> analysis_id,
   score |-> sc.overall,
   categories |-> [security |-> sc.security, reliability |-> sc.reliability,
                   scalability |-> sc.scalability, performance |-> sc.performance,
                   cost |-> sc.cost],
   issues |-> issues,
   recommendations |-> recs]

\* contents of the concurrent requests
ConcurrentContents ==
  { <<" "," ">> \o ScoreFragments[2] \o <<" ","\n","\t"," ">> \o ScoreFragments[6] \o <<"\n">>,
    <<"t","e","r","r","a","f","o","r","m",":"," ","I","A","M"," ","r","o","l","e",","," ","C","l","o","u","d","W","a","t","c","h">> }

\* the local variables of a coroutine that has not started
NoFrame ==
  [pc |-> "idle", content |-> <<>>, analysis_id |-> 0, parsed_content |-> <<>>,
   ai_analysis |-> <<>>, scores |-> <<>>, issues |-> <<>>, recommendations |-> <<>>,
   result |-> <<>>]

\* locals kept in one place: a stage sees those of the latest request that
\* has come as far as this one
latest_frame(ts, r) ==
  LET stage == [idle |-> 0, begun |-> 1, parsed |-> 2, analysed |-> 3, scored |-> 4,
                issues |-> 5, recommended |-> 6, returned |-> 7]
  IN  ts[CHOOSE q \in DOMAIN ts :
           /\ stage[ts[q].pc] >= stage[ts[r].pc]
           /\ \A p \in DOMAIN ts : stage[ts[p].pc] >= stage[ts[r].pc] => p <= q]

\* the local variables request r works on: those of its own coroutine
frame(ts, r) == ts[r]

ConcurrentInit ==
  /\ tasks = [r \in 1..NumTasks |-> NoFrame]
  /\ analysis_cache = <<>>
  /\ clock = 0

\* a second passes while requests are still to arrive
Tick ==
  /\ UNCHANGED outside_tasks
  /\ clock < MaxClock
  /\ \E r \in 1..NumTasks : tasks[r].pc = "idle"
  /\ clock' = clock + 1
  /\ UNCHANGED <<tasks, analysis_cache>>

\* analyze(content) starts (the requests are numbered as they arrive):
\* analysis_id = f"analysis_{int(datetime.now().timestamp())}"
Begin(r, content) ==
  /\ UNCHANGED outside_tasks
  /\ tasks[r].pc = "idle"
  /\ \A q \in 1..(r - 1) : tasks[q].pc # "idle"
  /\ tasks' = [tasks EXCEPT ![r] = [NoFrame EXCEPT !.pc = "begun", !.content = content,
                                                   !.analysis_id = clock]]
  /\ UNCHANGED <<analysis_cache, clock>>

\* parsed_content = await self._parse_content(content, file_content)
ParseContent(r) ==
  /\ UNCHANGED outside_tasks
  /\ tasks[r].pc = "begun"
  /\ tasks' = [tasks EXCEPT ![r].pc = "parsed",
                            ![r].parsed_content = parse_content(frame(tasks, r).content)]
  /\ UNCHANGED <<analysis_cache, clock>>

\* ai_analysis = await self._generate_ai_analysis(...)
GenerateAiAnalysis(r) ==
  /\ UNCHANGED outside_tasks
  /\ tasks[r].pc = "parsed"
  /\ tasks' = [tasks EXCEPT ![r].pc = "analysed", ![r].ai_analysis = generate_mock_analysis]
  /\ UNCHANGED <<analysis_cache, clock>>

\* scores = await self.scoring_engine.calculate_scores(architecture=parsed_content, ...)
TaskScores(r) ==
  /\ UNCHANGED outside_tasks
  /\ tasks[r].pc = "analysed"
  /\ tasks' = [tasks EXCEPT ![r].pc = "scored",
                            ![r].scores = << calculate_scores(frame(tasks, r).parsed_content) >>]
  /\ UNCHANGED <<analysis_cache, clock>>

\* issues = await self._extract_issues(ai_analysis, parsed_content)
TaskIssues(r) ==
  /\ UNCHANGED outside_tasks
  /\ tasks[r].pc = "scored"
  /\ tasks' = [tasks EXCEPT ![r].pc = "issues",
                            ![r].issues = extract_issues(frame(tasks, r).ai_analysis,
                                                         frame(tasks, r).parsed_content)]
  /\ UNCHANGED <<analysis_cache, clock>>

\* recommendations = await self._generate_recommendations(ai_analysis, scores)
TaskRecommendations(r) ==
  /\ UNCHANGED outside_tasks
  /\ tasks[r].pc = "issues"
  /\ tasks' = [tasks EXCEPT ![r].pc = "recommended",
                            ![r].recommendations =
                               AnalysisEngine_generate_recommendations(frame(tasks, r).scores[1])]
  /\ UNCHANGED <<analysis_cache, clock>>

\* the result is built, stored in the cache under its id (self.analysis_cache[
\* analysis_id] = result) and returned
TaskReturn(r) ==
  /\ UNCHANGED outside_tasks
  /\ tasks[r].pc = "recommended"
  /\ LET f == frame(tasks, r)
         result == analysis_result(f.analysis_id, f.scores[1], f.issues, f.recommendations)
     IN  /\ tasks' = [tasks EXCEPT ![r].pc = "returned", ![r].result = << result >>]
         /\ analysis_cache' =
              [id \in DOMAIN analysis_cache \cup {result.id} |->
                 IF id = result.id THEN result ELSE analysis_cache[id]]
  /\ UNCHANGED clock

ConcurrentNext ==
  \/ Tick
  \/ \E r \in 1..NumTasks, content \in ConcurrentContents : Begin(r, content)
  \/ \E r \in 1..NumTasks : ParseContent(r)
  \/ \E r \in 1..NumTasks : GenerateAiAnalysis(r)
  \/ \E r \in 1..NumTasks : TaskScores(r)
  \/ \E r \in 1..NumTasks : TaskIssues(r)
  \/ \E r \in 1..NumTasks : TaskRecommendations(r)
  \/ \E r \in 1..NumTasks : TaskReturn(r)


(***************************************************************************)
(* The session memory of the assistant routes (routers/assistant.py).      *)
(* The handlers have no await, so each runs as one step of the event loop. *)
(***************************************************************************)
\* the messages a session id may ever be sent
MaxStores == 22

\* len(session_memory[session_id]) > 20, [-20:]
MemoryCap == 20

SessionIds == {"s1", "s2"}

\* Message.role
MessageRoles == <<"user", "assistant", "system">>

\* message.dict() of the n-th message sent for a session: the content names
\* the message, the roles come in turn
message_dict(n) == [role |-> MessageRoles[(n % 3) + 1], content |-> n]

\* lst[-k:] for k > 0
last_k(lst, k) == IF Len(lst) <= k THEN lst ELSE SubSeq(lst, Len(lst) - k + 1, Len(lst))

\* dict.get(session_id, [])
memory_get(session_id) ==
  IF session_id \in DOMAIN session_memory THEN session_memory[session_id] ELSE <<>>

\* the cut keeps the first 20 instead: [:20]
appended_first_kept(lst, message) ==
  LET appended == Append(lst, message)
  IN  IF Len(appended) > MemoryCap THEN SubSeq(appended, 1, MemoryCap) ELSE appended

\* the list with the message appended, cut to its last 20 when longer
appended_capped(lst, message) ==
  LET appended == Append(lst, message)
  IN  IF Len(appended) > MemoryCap THEN last_k(appended, MemoryCap) ELSE appended

MemoryInit ==
  /\ session_memory = <<>>
  /\ memory_log = [s \in SessionIds |-> <<>>]
  /\ memory_serial = [s \in SessionIds |-> 0]
  /\ memory_reply = [op |-> "none"]

\* POST /memory/{session_id}
store_message(session_id) ==
  /\ UNCHANGED outside_memory
  /\ memory_serial[session_id] < MaxStores
  /\ LET message == message_dict(memory_serial[session_id] + 1)
         kept == appended_capped(memory_get(session_id), message)
     IN  /\ session_memory' = [s \in DOMAIN session_memory \cup {session_id} |->
                                 IF s = session_id THEN kept ELSE session_memory[s]]
         /\ memory_log' = [memory_log EXCEPT ![session_id] = Append(@, message)]
         /\ memory_serial' = [memory_serial EXCEPT ![session_id] = @ + 1]
         /\ memory_reply' = [op |-> "store", session_id |-> session_id, success |-> TRUE,
                             message_count |-> Len(kept)]

\* GET /memory/{session_id}
get_session_memory(session_id) ==
  /\ UNCHANGED outside_memory
  /\ memory_reply' = [op |-> "get", session_id |-> session_id,
                      messages |-> memory_get(session_id),
                      message_count |-> Len(memory_get(session_id))]
  /\ UNCHANGED <<session_memory, memory_log, memory_serial>>

\* DELETE /memory/{session_id}
clear_session_memory(session_id) ==
  /\ UNCHANGED outside_memory
  /\ session_memory' = [s \in DOMAIN session_memory \ {session_id} |-> session_memory[s]]
  /\ memory_log' = [memory_log EXCEPT ![session_id] = <<>>]
  /\ memory_reply' = [op |-> "clear", session_id |-> session_id, success |-> TRUE]
  /\ UNCHANGED memory_serial

MemoryNext ==
  \/ \E session_id \in SessionIds : store_message(session_id)
  \/ \E session_id \in SessionIds : get_session_memory(session_id)
  \/ \E session_id \in SessionIds : clear_session_memory(session_id)

(***************************************************************************)
(* StaticAnalyzer.analyze_content: the content goes through a temporary    *)
(* file.                                                                   *)
(***************************************************************************)
\* temporary files that may exist when a call starts
MaxTmpFiles == 2

\* a code point str.encode('utf-8') refuses (a lone surrogate)
LoneSurrogate == "U+D800"

\* the contents of a call: texts, a text with a lone surrogate, and None
ContentArgs ==
  {TextOf(StaticFragments, fs) : fs \in FragSeqs(StaticFragments)}
  \cup {<< LoneSurrogate >> \o StaticFragments[1], None}

\* what the steps of a call meet: whether checkov is installed and what the
\* subprocess does, and whether its results have the fields analyze_compliance reads
ContentEnvironments ==
  { [checkov |-> "unavailable", well_formed |-> TRUE],
    [checkov |-> "no_output", well_formed |-> TRUE],
    [checkov |-> "results", well_formed |-> TRUE],
    [checkov |-> "results", well_formed |-> FALSE],
    [checkov |-> "raises", well_formed |-> TRUE] }

\* tmp_file.write(content): the exception it raises ("" when it returns)
write_raises(content) ==
  IF content = None THEN "TypeError"
  ELSE IF \E i \in 1..Len(content) : content[i] = LoneSurrogate THEN "UnicodeEncodeError"
  ELSE ""

\* a name no existing temporary file has
fresh_name(files) == CHOOSE n \in 1..(Cardinality(DOMAIN files) + 1) : n \notin DOMAIN files

\* run_checkov_analysis(file_path, iac_type) on a file holding text
run_checkov_analysis(text, iac_type, env) ==
  IF env.checkov \in {"unavailable", "no_output"}
  THEN [raised |-> "", tool |-> "builtin", results |-> << built_in_analysis(text, iac_type) >>]
  ELSE IF env.checkov = "raises"
  THEN [raised |-> "OSError", tool |-> "checkov", results |-> <<>>]
  ELSE [raised |-> "", tool |-> "checkov", results |-> <<>>]

\* analyze_file(file_path, iac_type): the analysis, then the compliance analysis
analyze_file(text, iac_type, env) ==
  LET checkov_results == run_checkov_analysis(text, iac_type, env)
  IN  IF checkov_results.raised # "" THEN [raised |-> checkov_results.raised, out |-> <<>>]
      ELSE IF ~env.well_formed THEN [raised |-> "AttributeError", out |-> <<>>]
      ELSE [raised |-> "", out |-> << [tool |-> checkov_results.tool,
                                       static_analysis |-> checkov_results.results] >>]

\* the cleanup of the finally clause is in place: os.unlink(tmp_path)
unlinked(files, tmp_path) == [n \in DOMAIN files \ {tmp_path} |-> files[n]]

\* analyze_content(content, iac_type) with the temporary files there are:
\* how it ends and the temporary files there are afterwards
analyze_content(content, iac_type, env, files) ==
  LET tmp_path == fresh_name(files)
      created == [n \in DOMAIN files \cup {tmp_path} |-> IF n = tmp_path THEN <<>> ELSE files[n]]
  IN  IF write_raises(content) # ""
      THEN [raised |-> write_raises(content), out |-> <<>>, tmp_path |-> tmp_path,
            files |-> created]
      ELSE LET written == [created EXCEPT ![tmp_path] = content]
               result == analyze_file(written[tmp_path], iac_type, env)
           IN  [raised |-> result.raised, out |-> result.out, tmp_path |-> tmp_path,
                files |-> unlinked(written, tmp_path)]

ContentInit ==
  /\ content_pc = "idle"
  /\ content_arg = <<>>
  /\ content_out = <<>>
  /\ tmp_files = <<>>

\* a caller passes a content and the type found by the code parser
ContentCall(content, iac_type, env) ==
  /\ UNCHANGED outside_content
  /\ content_pc = "idle"
  /\ Cardinality(DOMAIN tmp_files) < MaxTmpFiles
  /\ content_pc' = "called"
  /\ content_arg' = << [content |-> content, iac_type |-> iac_type, env |-> env] >>
  /\ content_out' = <<>>
  /\ UNCHANGED tmp_files

\* StaticAnalyzer.analyze_content
AnalyzeContent ==
  /\ UNCHANGED outside_content
  /\ content_pc = "called"
  /\ LET end == analyze_content(content_arg[1].content, content_arg[1].iac_type,
                                content_arg[1].env, tmp_files)
     IN  /\ content_out' = << [raised |-> end.raised, out |-> end.out, tmp_path |-> end.tmp_path] >>
         /\ tmp_files' = end.files
  /\ content_pc' = "finished"
  /\ UNCHANGED content_arg

\* the caller is done with the result or has handled the exception
ContentDone ==
  /\ UNCHANGED outside_content
  /\ content_pc = "finished"
  /\ content_pc' = "idle"
  /\ content_arg' = <<>>
  /\ content_out' = <<>>
  /\ UNCHANGED tmp_files

ContentNext ==
  \/ \E content \in ContentArgs, iac_type \in IacTypes, env \in ContentEnvironments :
        ContentCall(content, iac_type, env)
  \/ AnalyzeContent
  \/ ContentDone

(***************************************************************************)
(* Specifications: the fastapi services (Spec), the local analysis engine  *)
(* (SpecLocal), analyze_architecture with its fallbacks (SpecAnalyze) and  *)
(* the built-in static analysis (SpecStatic), concurrent requests to       *)
(* AnalysisEngine.analyze (SpecConcurrent), the session memory of the      *)
(* assistant routes (SpecMemory) and StaticAnalyzer.analyze_content        *)
(* (SpecContent).                                                          *)
(***************************************************************************)
vars == <<svc_pc, architecture, scores, recommendations, components, extracted,
          local_pc, local_text, local_region, local_last, local_prev,
          an_pc, data, openrouter, an_out, an_prev, llm_posts,
          static_pc, static_content, static_type, static_out,
          tasks, analysis_cache, clock,
          session_memory, memory_log, memory_serial, memory_reply,
          content_pc, content_arg, content_out, tmp_files>>

Init ==
  /\ SvcInit /\ LocalInit /\ AnInit /\ StaticInit /\ ConcurrentInit
  /\ MemoryInit /\ ContentInit

Next == SvcNext

Spec == Init /\ [][Next]_vars

SpecLocal == Init /\ [][LocalNext]_vars

SpecAnalyze == Init /\ [][AnNext]_vars

SpecStatic == Init /\ [][StaticNext]_vars

SpecConcurrent == Init /\ [][ConcurrentNext]_vars

SpecMemory == Init /\ [][MemoryNext]_vars

SpecContent == Init /\ [][ContentNext]_vars

(***************************************************************************)
(* Properties.                                                             *)
(***************************************************************************)
SubScoreNames == {"security", "reliability", "scalability", "performance", "cost"}

\* the ScoreSet just returned by calculate_scores
Returned == scores[1]

\* floor(0.25*security + 0.25*reliability + 0.20*scalability + 0.15*performance + 0.15*cost)
WeightedFloor(ss) ==
  (25 * ss.security + 25 * ss.reliability + 20 * ss.scalability
   + 15 * ss.performance + 15 * ss.cost) \div 100

\* C1: on the computed path and on the default path, each of the five
\* sub-scores returned by calculate_scores is an integer in 0..100.
C1_SubScoresInRange ==
  svc_pc = "scored" => \A f \in SubScoreNames : Returned[f] \in 0..100

\* C1 witness: a text whose security adjustments add up to more than 100 was
\* scored, and the returned security score is the clamped 100.
C1_Witness ==
  /\ svc_pc = "scored"
  /\ architecture # None
  /\ Returned.security = 100
  /\ Contains(<<"w","a","f">>, lower(architecture))
  /\ Contains(<<"m","o","n","i","t","o","r","i","n","g">>, lower(architecture))

\* C2 (as claimed): every ScoreSet returned by calculate_scores has
\* overall = floor of the weighted sum of the five sub-scores it returns.
C2_OverallIsWeightedFloor ==
  svc_pc = "scored" => Returned.overall = WeightedFloor(Returned)

\* C6: for every text, the empty string included, the component list is not
\* empty, and when no component keyword occurs in the text it is exactly
\* users, web_app, database in that order.
C6_ComponentsNonEmpty ==
  (svc_pc = "diagrammed" /\ architecture # None) =>
     /\ components # <<>>
     /\ (\A k \in 1..Len(component_patterns) :
            ~AnyIn(component_patterns[k].patterns, lower(architecture)))
        => [i \in 1..Len(components) |-> components[i].type]
             = << "users", "web_app", "database" >>

\* C6 witness: the empty string was parsed and answered with the three
\* generic components.
C6_Witness ==
  /\ svc_pc = "diagrammed"
  /\ architecture = <<>>
  /\ Len(components) = 3
  /\ components[1].type = "users"

\* C7: no two components of a returned component list have the same kind,
\* in the list of DiagramEngine and in the list of _extract_components.
C7_NoDuplicateKind ==
  /\ svc_pc = "diagrammed" =>
       \A i \in 1..Len(components), j \in 1..Len(components) :
          i # j => components[i].type # components[j].type
  /\ svc_pc = "extracted" =>
       \A i \in 1..Len(extracted), j \in 1..Len(extracted) :
          i # j => extracted[i] # extracted[j]

\* C7 witness: a text matching three keywords of the kind database (mysql,
\* rds, database) was parsed and database is listed.
C7_Witness ==
  /\ svc_pc = "diagrammed"
  /\ architecture # None
  /\ Contains(<<"m","y","s","q","l">>, lower(architecture))
  /\ Contains(<<"r","d","s">>, lower(architecture))
  /\ Contains(<<"d","a","t","a","b","a","s","e">>, lower(architecture))
  /\ \E i \in 1..Len(components) : components[i].type = "database"

\* the text with "encryption" appended
WithEncryption(t) == t \o <<"e","n","c","r","y","p","t","i","o","n">>

\* C8: appending "encryption" to a text never decreases the security
\* sub-score: security(t + "encryption") >= security(t).
C8_EncryptionMonotone ==
  (svc_pc = "scored" /\ architecture # None) =>
     calculate_scores(WithEncryption(architecture)).security >= Returned.security

\* C8 witness: a text without any encryption term was scored, and appending
\* "encryption" raises its security score.
C8_Witness ==
  /\ svc_pc = "scored"
  /\ architecture # None
  /\ ~AnyIn(<< <<"e","n","c","r","y","p","t","i","o","n">>, <<"s","s","l">>, <<"t","l","s">> >>, lower(architecture))
  /\ calculate_scores(WithEncryption(architecture)).security > Returned.security

\* C9: the recommendation list is never empty and never longer than 6.
C9_RecommendationBounds ==
  svc_pc = "recommended" => Len(recommendations) \in 1..6

\* C9 witness: all four deficit recommendations were due, so seven entries
\* were collected and six returned.
C9_Witness ==
  /\ svc_pc = "recommended"
  /\ Returned.security < 75
  /\ Returned.reliability < 75
  /\ Returned.cost < 75
  /\ Returned.performance < 75
  /\ Len(recommendations) = 6

\* the recommendations the code emits for a category
SpecificRecommendations(category) ==
  CASE category = "security"    -> {rec_security}
    [] category = "reliability" -> {rec_reliability}
    [] category = "cost"        -> {rec_cost}
    [] category = "performance" -> {rec_performance}
    [] category = "scalability" -> {}

\* the list contains a recommendation specific to the category
HasSpecific(category) ==
  \E i \in 1..Len(recommendations) : recommendations[i] \in SpecificRecommendations(category)

ResultKeys ==
  {"summary", "score", "issues", "recommendations", "diagram_mermaid", "estimated_cost",
   "compliance_assessment"}

\* C3 (as claimed): every call of analyze_architecture ends by returning a
\* dict with all keys of the result structure, and never by an exception,
\* whichever step fails.
C3_CompleteResultNeverRaises ==
  an_out # <<>> => /\ ~an_out[1].raised
                   /\ ResultKeys \subseteq an_out[1].keys

Deficits ==
  Cardinality({c \in {"security", "reliability", "cost", "performance"} : scores[1][c] < 75})

Recommended(title) == \E i \in 1..Len(recommendations) : recommendations[i] = title

\* C11 (as claimed): whatever the number of deficits, the returned list
\* contains all three baseline recommendations.
C11_AllBaselines ==
  svc_pc = "recommended" => \A b \in 1..3 : Recommended(default_recommendations[b])

\* C11 (amended): with at most three deficits the returned list contains all
\* three baseline recommendations; with four deficits it contains the first
\* two (infrastructure as code, monitoring) and the cut at six entries drops
\* the third (backup and disaster recovery).
C11_BaselinesUpToTheCut ==
  svc_pc = "recommended" =>
     /\ Deficits <= 3 => \A b \in 1..3 : Recommended(default_recommendations[b])
     /\ Deficits = 4 => /\ Recommended(default_recommendations[1])
                        /\ Recommended(default_recommendations[2])
                        /\ ~Recommended(default_recommendations[3])

\* C11 witness: three deficits and the three baselines fill the six entries.
C11_Witness ==
  /\ svc_pc = "recommended"
  /\ Deficits = 3
  /\ Len(recommendations) = 6
  /\ recommendations[6] = default_recommendations[3]

\* C12 (as claimed): the evidence of every Finding of the local analysis
\* occurs verbatim in the analysed text.
C12_EvidenceInText ==
  local_last # <<>> =>
     \A i \in 1..Len(local_last[1].issues) :
        Contains(local_last[1].issues[i].evidence, local_text)

\* the number of matches of each catalog pattern in a text
MatchCounts(text) ==
  SubSeq([k \in 1..Len(rule_patterns) |-> Len(findall(rule_patterns[k].re, text))],
         1, Len(rule_patterns))

\* C13: after a call of the rule engine there is exactly one Finding for each
\* catalog pattern with a match and none for a pattern without, in catalog
\* order, each carrying the pattern, rule, category and severity of its own
\* catalog entry and the number of that pattern's matches, whatever else fired.
C13_OneFindingPerMatchingPattern ==
  (local_pc = "returned" /\ local_prev = <<>>) =>
     LET issues == local_last[1].issues
         counts == MatchCounts(local_text)
         hits == {k \in 1..Len(rule_patterns) : counts[k] > 0}
         hit(i) == CHOOSE k \in hits : Cardinality({h \in hits : h <= k}) = i
     IN  /\ Len(issues) = Cardinality(hits)
         /\ \A i \in 1..Len(issues) :
               LET entry == rule_patterns[hit(i)]
               IN  /\ issues[i].evidence = <<"P","a","t","t","e","r","n"," ","m","a","t","c","h","e","d",":"," ">> \o entry.source
                   /\ issues[i].rule = entry.rule
                   /\ issues[i].category = entry.category
                   /\ issues[i].severity = entry.severity
                   /\ issues[i].matches_found = counts[hit(i)]

\* C13 witness: two patterns of the rule hardcoded_secrets fired next to
\* Findings of another category.
C13_Witness ==
  /\ local_pc = "returned"
  /\ local_prev = <<>>
  /\ Len(local_last[1].issues) >= 4
  /\ local_last[1].issues[1].rule = "hardcoded_secrets"
  /\ local_last[1].issues[2].rule = "hardcoded_secrets"
  /\ \E i \in 1..Len(local_last[1].issues) : local_last[1].issues[i].category # "security"

\* The built-in static analysis takes its evidence from the content: each of
\* the at most three evidence strings of a failed check occurs in it.
StaticEvidenceInContent ==
  static_out # <<>> =>
     \A i \in 1..Len(static_out[1].failed) :
        /\ Len(static_out[1].failed[i].evidence) \in 1..3
        /\ \A e \in 1..Len(static_out[1].failed[i].evidence) :
              Contains(static_out[1].failed[i].evidence[e], static_content)

\* C14: no two Findings of one run of the rule engine have the same id.
C14_UniqueIds ==
  local_last # <<>> =>
     \A i, j \in 1..Len(local_last[1].issues) :
        i # j => local_last[1].issues[i].id # local_last[1].issues[j].id

\* C14 witness: two patterns of the same rule fired in one run; their ids
\* are LOCAL_HARDCODED_SECRETS_0 and LOCAL_HARDCODED_SECRETS_1.
C14_Witness ==
  /\ local_last # <<>>
  /\ Len(local_last[1].issues) >= 2
  /\ local_last[1].issues[1].rule = local_last[1].issues[2].rule
  /\ local_last[1].issues[1].id = <<"L","O","C","A","L","_","H","A","R","D","C","O","D","E","D","_","S","E","C","R","E","T","S","_","0">>
  /\ local_last[1].issues[2].id = <<"L","O","C","A","L","_","H","A","R","D","C","O","D","E","D","_","S","E","C","R","E","T","S","_","1">>

\* C15: when a step of calculate_scores raises, the call returns (the request
\* goes on to the next stage) and the ScoreSet it returns is exactly
\* overall=75, security=70, reliability=75, scalability=80, performance=75, cost=70
C15_DefaultScoreSetOnRaise ==
  (svc_pc = "scored" /\ scoring_raises(architecture)) =>
    scores = << [overall |-> 75, security |-> 70, reliability |-> 75,
                 scalability |-> 80, performance |-> 75, cost |-> 70] >>

C15_Witness ==
  /\ svc_pc = "recommended"
  /\ architecture = None
  /\ Len(scores) = 1
  /\ scores[1].scalability = 80

\* C16 (as claimed): every call of analyze_architecture that ends on a
\* degraded path (anything but the decoded reply of the LLM) returns a dict,
\* not an exception, and the dict has an analysis_method or a note key.
C16_DegradedIsMarked ==
  (an_out # <<>> /\ try_block_end(data[1], openrouter[1]) # "reply_decoded") =>
     /\ ~an_out[1].raised
     /\ an_out[1].keys \cap {"analysis_method", "note"} # {}

\* the result was computed by the local analysis engine
LocallyComputed(out) ==
  /\ ~out.raised
  /\ out.analysis_method \in {"enhanced_local_fallback", "emergency_local_fallback"}

\* C17 (as claimed): with no API key configured a call of analyze_architecture
\* ends by returning a locally computed result, and no request was posted to
\* the LLM provider before it returned.
C17_NoKeyLocalResultNoLLM ==
  (an_out # <<>> /\ ~openrouter[1].api_key) =>
     /\ LocallyComputed(an_out[1])
     /\ llm_posts = 0

\* The part of C17 on the order of events: however a call without an API key
\* ends, it has posted nothing to the LLM provider.
NoKeyNoPost ==
  (an_out # <<>> /\ ~openrouter[1].api_key) => llm_posts = 0

\* a call without an API key returned; a call with one posted to the provider
NoKeyNoPost_Witness ==
  /\ an_out # <<>>
  /\ ~openrouter[1].api_key
  /\ ~an_out[1].raised
  /\ an_out[1].analysis_method = "enhanced_local_fallback"

\* the three routes on which analyze_architecture returns the local analysis
LocalRoutes ==
  {"enhanced_local_fallback", "enhanced_fallback_after_ai_failure", "emergency_local_fallback"}

ViaLocalRoute(out) == ~out.raised /\ out.analysis_method \in LocalRoutes

\* C19: the strategies are tried in order: a decoded LLM reply is returned as
\* it is; the local analysis is returned when the LLM gave no decoded reply;
\* the hardcoded response is returned only when the local analysis failed as
\* well (the text is None).  Two results of the local analysis for the same
\* text and region, whatever routes led to them, have the same summary, score
\* and issues, and the keys the routes write afterwards are none of summary,
\* score, issues, recommendations, diagram_mermaid, estimated_cost and
\* compliance_assessment.
C19_FirstSuccessWins ==
  /\ (an_out # <<>> /\ ~an_out[1].raised) =>
        /\ try_block_end(data[1], openrouter[1]) = "reply_decoded"
              <=> "confidence_score" \in an_out[1].keys /\ "stackstage_version" \notin an_out[1].keys
        /\ "stackstage_version" \in an_out[1].keys => data[1].architecture_text = None
        /\ (try_block_end(data[1], openrouter[1]) # "reply_decoded" /\ data[1].architecture_text # None)
              => ViaLocalRoute(an_out[1])
        /\ ViaLocalRoute(an_out[1]) => an_out[1].written \cap ResultKeys = {}
  /\ (an_out # <<>> /\ an_prev # <<>> /\ ViaLocalRoute(an_out[1]) /\ ViaLocalRoute(an_prev[1])) =>
        /\ an_out[1].summary = an_prev[1].summary
        /\ an_out[1].score = an_prev[1].score
        /\ an_out[1].issues = an_prev[1].issues
        /\ ResultKeys \subseteq an_out[1].keys /\ ResultKeys \subseteq an_prev[1].keys

\* C19 witness: the same text and region reached the local analysis first
\* without API key and then after a reply that was not JSON; the analysis has
\* findings.
C19_Witness ==
  /\ an_out # <<>> /\ an_prev # <<>>
  /\ ViaLocalRoute(an_out[1]) /\ ViaLocalRoute(an_prev[1])
  /\ an_prev[1].analysis_method = "enhanced_local_fallback"
  /\ an_out[1].analysis_method = "enhanced_fallback_after_ai_failure"
  /\ Len(an_out[1].issues) >= 2

\* what a request with this content gets when it runs alone
AloneResult ==
  [content \in ConcurrentContents |->
     LET parsed == parse_content(content)
         sc == calculate_scores(parsed)
     IN  [score |-> sc.overall,
          issues |-> extract_issues(generate_mock_analysis, parsed),
          recommendations |-> AnalysisEngine_generate_recommendations(sc)]]

\* C18: whatever the interleaving of the concurrent requests, a request that
\* has returned got the score, the issues and the recommendations of a run
\* alone on its content, and every request still has the content it was given.
C18_SameAsAlone ==
  \A r \in 1..NumTasks :
     /\ tasks[r].pc # "idle" => tasks[r].content \in ConcurrentContents
     /\ tasks[r].pc = "returned" =>
          /\ tasks[r].result[1].score = AloneResult[tasks[r].content].score
          /\ tasks[r].result[1].issues = AloneResult[tasks[r].content].issues
          /\ tasks[r].result[1].recommendations = AloneResult[tasks[r].content].recommendations

\* C18 witness: request 1 returned while request 2, with another content and
\* the same analysis id, was between two of its stages; the two contents
\* have different scores and issues.
C18_Witness ==
  /\ tasks[1].pc = "returned"
  /\ tasks[2].pc = "scored"
  /\ tasks[1].content # tasks[2].content
  /\ tasks[1].analysis_id = tasks[2].analysis_id
  /\ tasks[1].result[1].score # tasks[2].scores[1].overall
  /\ tasks[1].result[1].issues # extract_issues(generate_mock_analysis, tasks[2].parsed_content)

\* the kinds of the components DiagramEngine finds in a text
DiagramKinds(text) ==
  LET cs == parse_architecture_components(text) IN {cs[i].type : i \in 1..Len(cs)}

\* the components LocalAnalysisEngine finds in a text
LocalKinds(text) ==
  LET cs == extract_components(text) IN {cs[i] : i \in 1..Len(cs)}

\* C20 (as claimed): the analysis of the text of Scenario 1 has a reliability
\* Finding of the rule single_az, a security Finding of the rule
\* encryption_disabled, a security sub-score below 60 and the components
\* database and compute.
C20_Scenario1 ==
  (local_pc = "returned" /\ local_text = Scenarios[1]) =>
     /\ \E i \in 1..Len(local_last[1].issues) :
           /\ local_last[1].issues[i].category = "reliability"
           /\ local_last[1].issues[i].rule = "single_az"
     /\ \E i \in 1..Len(local_last[1].issues) :
           /\ local_last[1].issues[i].category = "security"
           /\ local_last[1].issues[i].rule = "encryption_disabled"
     /\ calculate_scores(local_text).security < 60
     /\ {"database", "compute"} \subseteq LocalKinds(local_text) \cup DiagramKinds(local_text)

\* What the code does yield for Scenario 1: the only Finding is no_backups
\* (reliability), the security sub-score of ScoringEngine is exactly 60, and
\* database and compute are among the components of the local engine.
Scenario1Outcome ==
  (local_pc = "returned" /\ local_text = Scenarios[1]) =>
     /\ Len(local_last[1].issues) = 1
     /\ local_last[1].issues[1].rule = "no_backups"
     /\ calculate_scores(local_text).security = 60
     /\ LocalKinds(local_text) = {"compute", "database"}
     /\ DiagramKinds(local_text) = {"web_server", "database"}

\* some Finding of the local analysis has severity critical
HasCritical(issues) == \E i \in 1..Len(issues) : issues[i].severity = "critical"

\* C21 (as claimed): for the text of Scenario 2 the sub-scores security,
\* reliability, scalability and performance are each at least 80 and no
\* Finding is critical.
C21_Scenario2AllHigh ==
  (local_pc = "returned" /\ local_text = Scenarios[2]) =>
     LET s == calculate_scores(local_text)
     IN  /\ s.security >= 80 /\ s.reliability >= 80
         /\ s.scalability >= 80 /\ s.performance >= 80
         /\ ~HasCritical(local_last[1].issues)

\* C21 (amended): for the text of Scenario 2 scalability (85) and
\* performance (92) are at least 80, security is 65 and reliability is 70,
\* and the rule engine reports no Finding at all, so none is critical.
C21_Scenario2Scores ==
  (local_pc = "returned" /\ local_text = Scenarios[2]) =>
     LET s == calculate_scores(local_text)
     IN  /\ s.security = 65 /\ s.reliability = 70
         /\ s.scalability = 85 /\ s.performance = 92
         /\ local_last[1].issues = <<>>

\* C21 witness: the local analysis of the text of Scenario 2 has returned.
C21_Witness ==
  /\ local_pc = "returned"
  /\ local_text = Scenarios[2]
  /\ local_last # <<>>
  /\ Contains(<<"m","u","l","t","i","-","a","z">>, lower(local_text))

\* the request served is the one with the empty string
EmptyRequest(pc) == svc_pc = pc /\ architecture = <<>>

\* C22 (as claimed): for the empty string the components are the fallback
\* users, web_app, database, each of the five sub-scores lies in 60..80 and
\* the recommendations contain the three baseline recommendations.
C22_Scenario3Defaultish ==
  /\ EmptyRequest("diagrammed") =>
        [i \in 1..Len(components) |-> components[i].type] = << "users", "web_app", "database" >>
  /\ EmptyRequest("scored") =>
        \A c \in {"security", "reliability", "scalability", "performance", "cost"} :
           scores[1][c] \in 60..80
  /\ (EmptyRequest("recommended") /\ scores = << calculate_scores(<<>>) >>) =>
        \A b \in 1..3 : Recommended(default_recommendations[b])

\* C22 (amended): for the empty string the components are the fallback
\* users, web_app, database; scalability, performance and cost are 70,
\* security is 45 and reliability is 50; the recommendations are the four
\* deficit recommendations followed by the first two baselines, the third
\* baseline (backup and disaster recovery) being cut.
C22_Scenario3Outcome ==
  /\ EmptyRequest("diagrammed") =>
        [i \in 1..Len(components) |-> components[i].type] = << "users", "web_app", "database" >>
  /\ EmptyRequest("scored") =>
        /\ scores[1].security = 45 /\ scores[1].reliability = 50
        /\ scores[1].scalability = 70 /\ scores[1].performance = 70 /\ scores[1].cost = 70
  /\ (EmptyRequest("recommended") /\ scores = << calculate_scores(<<>>) >>) =>
        recommendations = << rec_security, rec_reliability, rec_cost, rec_performance,
                             default_recommendations[1], default_recommendations[2] >>

\* C22 witness: the recommendations for the empty string have been generated.
C22_Witness ==
  /\ EmptyRequest("recommended")
  /\ Len(scores) = 1
  /\ scores[1].security = 45
  /\ Len(recommendations) = 6

\* C23: for the texts of Scenario 4, whose only rule-relevant content is
\* password = "Sup3rSecret123", the rule engine reports exactly one Finding
\* of severity critical; its category is security and its rule is
\* hardcoded_secrets.
C23_Scenario4OneCritical ==
  (local_pc = "returned" /\ local_text \in {Scenarios[4], Scenarios[5]}) =>
     LET issues == local_last[1].issues
         critical == {i \in 1..Len(issues) : issues[i].severity = "critical"}
     IN  /\ Cardinality(critical) = 1
         /\ \A i \in critical : /\ issues[i].category = "security"
                                /\ issues[i].rule = "hardcoded_secrets"

\* C23 witness: the text with the password inside a sentence was analysed
\* and the Finding of the hardcoded-credential rule is there.
C23_Witness ==
  /\ local_pc = "returned"
  /\ local_text = Scenarios[5]
  /\ Len(local_last[1].issues) = 1
  /\ local_last[1].issues[1].id = <<"L","O","C","A","L","_","H","A","R","D","C","O","D","E","D","_","S","E","C","R","E","T","S","_","0">>
  /\ local_last[1].issues[1].matches_found = 1

\* the rank of a priority label: P0 is the most urgent
PriorityRank(p) == CASE p = "P0" -> 0 [] p = "P1" -> 1 [] p = "P2" -> 2 [] OTHER -> 3

\* C24: in every recommendation list returned by the local analysis a P0
\* item comes before every P1 item and a P1 item before every P2 item, and
\* no two items have the same title.
C24_PriorityOrderDistinctTitles ==
  local_last # <<>> =>
     LET recs == local_last[1].recommendations
     IN  \A i, j \in 1..Len(recs) :
            i < j => /\ PriorityRank(recs[i].priority) <= PriorityRank(recs[j].priority)
                     /\ recs[i].title # recs[j].title

\* C24 witness: a text with hardcoded secrets and an xlarge instance and no
\* word of multi-AZ got all three recommendations.
C24_Witness ==
  /\ local_last # <<>>
  /\ Len(local_last[1].recommendations) = 3
  /\ local_last[1].recommendations[1].priority = "P0"
  /\ local_last[1].recommendations[1].found >= 2
  /\ local_last[1].recommendations[3].priority = "P2"

\* the request that sends the content of the file as architecture_text
AsText(d) == [d EXCEPT !.architecture_text = d.file_content, !.file_content = None]

\* C25 (as claimed): a call for a request that has file_content alone ends by
\* returning a result, and the result is the one of the call for the request
\* that has the same content as architecture_text, under the same conditions.
C25_FileContentAnalysed ==
  (an_out # <<>> /\ data[1].architecture_text = None /\ data[1].file_content # None) =>
     /\ ~an_out[1].raised
     /\ an_out[1] = analyze_architecture(AsText(data[1]), openrouter[1],
                       local_fallback_call(data[1].file_content, data[1].user_region))

\* the requests that have returned
ReturnedTasks == {r \in 1..NumTasks : tasks[r].pc = "returned"}

\* C26 (as claimed): two requests that have returned never have the same id,
\* the cache holds one entry for each of them, and the entry under the id of
\* a returned request is the result this request returned.
C26_OneEntryPerCall ==
  /\ \A p, q \in ReturnedTasks : p # q => tasks[p].result[1].id # tasks[q].result[1].id
  /\ Cardinality(DOMAIN analysis_cache) = Cardinality(ReturnedTasks)
  /\ \A r \in ReturnedTasks :
        /\ tasks[r].result[1].id \in DOMAIN analysis_cache
        /\ analysis_cache[tasks[r].result[1].id] = tasks[r].result[1]

\* C27: each session holds at most 20 messages, they are the most recently
\* stored messages of the session since its last clear, in arrival order
\* (a cleared session holds none), and the message_count store_message
\* returns is the length of the list it stored.
C27_LastTwentyInOrder ==
  /\ \A s \in SessionIds :
        /\ Len(memory_get(s)) <= 20
        /\ Len(memory_get(s)) = Min(20, Len(memory_log[s]))
        /\ \A i \in 1..Len(memory_get(s)) :
              memory_get(s)[i] = memory_log[s][Len(memory_log[s]) - Len(memory_get(s)) + i]
  /\ memory_reply.op = "store" =>
        memory_reply.message_count = Len(session_memory[memory_reply.session_id])

\* C27 witness: a session that was cleared before has been sent more than 20
\* messages since, the latest store dropped the oldest of them and returned 20.
C27_Witness ==
  /\ memory_reply.op = "store"
  /\ memory_reply.message_count = 20
  /\ Len(memory_log[memory_reply.session_id]) > 20
  /\ memory_serial[memory_reply.session_id] > Len(memory_log[memory_reply.session_id])
  /\ session_memory[memory_reply.session_id][1] # memory_log[memory_reply.session_id][1]

\* C28 (as claimed): once analyze_content has finished, by returning or by
\* raising, the temporary file it created does not exist.
C28_TempFileGone ==
  content_pc = "finished" => content_out[1].tmp_path \notin DOMAIN tmp_files

\* C29 (as claimed): the score of a local analysis has overall = security +
\* reliability + performance + cost, security and reliability in 0..30,
\* performance and cost in 0..20, and so overall in 0..100.
C29_LocalScoreRanges ==
  local_last # <<>> =>
     LET score == local_last[1].score
     IN  /\ score.overall = score.security + score.reliability + score.performance + score.cost
         /\ score.security \in 0..30
         /\ score.reliability \in 0..30
         /\ score.performance \in 0..20
         /\ score.cost \in 0..20
         /\ score.overall \in 0..100

\* C30: for a string input the sub-scores are at least security 45,
\* reliability 40, scalability 70, performance 57 and cost 54, so the clamp
\* at 0 is not reached; a text of high complexity has scalability at least 70.
C30_LowerClampNotReached ==
  (svc_pc = "scored" /\ architecture # None) =>
     /\ scores[1].security >= 45
     /\ scores[1].reliability >= 40
     /\ scores[1].scalability >= 70
     /\ scores[1].performance >= 57
     /\ scores[1].cost >= 54

\* C30 witness: a text of high complexity, with neither cache nor lambda, got
\* both complexity penalties and the least cost sub-score, 54; its
\* scalability sub-score is above the base of 70.
C30_Witness ==
  /\ svc_pc = "scored"
  /\ architecture # None
  /\ assess_complexity(architecture) = "high"
  /\ scores[1].cost = 54
  /\ scores[1].scalability >= 70

=============================================================================
